---------------------------- MODULE Spec2Model ----------------------------
(***************************************************************************)
(* A model of the core of wtc3_logger: the DataBus (databus.py), the       *)
(* stream Parser (parser.py), the export-stem helpers (export_utils.py)    *)
(* and the AcquisitionController with its raw-log file (acquisition.py).   *)
(*                                                                         *)
(* Ten specifications share the variables:                                 *)
(*   SpecBus  the DataBus driven directly through its public methods,      *)
(*            with the polling consumer of MainWindow.refresh;             *)
(*   Spec     the AcquisitionController: a source delivers raw lines, the  *)
(*            owning thread calls start/stop/apply_config/                 *)
(*            update_export_meta/export_stem;                              *)
(*   SpecListeners  the controller with listeners subscribed to its bus;   *)
(*   SpecParser     the Parser fed line by line;                           *)
(*   SpecStatus     decode_status alone;                                   *)
(*   SpecThreads    the controller and the life of its source threads;     *)
(*   SpecRun        a source thread statement by statement, with stop();   *)
(*   SpecLock       the DataBus under concurrent callers;                  *)
(*   SpecReset      the Parser fed line by line, with reset();             *)
(*   SpecHandle     the raw-log handle under the source and the owner.     *)
(*                                                                         *)
(* Every handler is a function from a state record to a state record, so   *)
(* that a handler that calls other handlers is their composition; an       *)
(* action commits the record its handler returns.                          *)
(***************************************************************************)
EXTENDS Integers, Sequences, FiniteSets, TLC

VARIABLES
    \* DataBus
    records, bus_meta, generation, listeners,
    \* MainWindow (the polling consumer)
    seen_generation,
    \* Parser
    phase, meta_hdr, data_hdr, meta,
    \* AcquisitionController
    config, thread, raw_log, raw_log_path, raw_log_dir, raw_log_suffix,
    export_stem,
    \* the file system, and the unflushed text held by the open handle
    fs, raw_buf,
    \* the source thread inside _handle_raw_line: "idle", or "feed" after
    \* the write and before parser.feed_line(cur); pos is the number of lines
    \* the running source has read from its file or port
    pc, cur, pos,
    \* what the last operation was and did (observations, not program state)
    lastOp, lastFn, calls, upd_args, fsOps, errors, yielded,
    \* the callbacks the Parser invoked in the last operation, in order, and
    \* the handler feed_line passed the line to ("header", "values", or ""
    \* when it passed it to none)
    events, handled,
    \* status_message and config_changed emissions, the exception that
    \* escaped to the caller, the value returned, the configuration passed
    \* to apply_config
    status, changed, raised, ret, applied,
    \* source threads the controller has forgotten while they were alive
    stale,
    \* history
    sinceReset, wiped, unsubscribed, received, openBase, concrete,
    \* a rename or a reopen of update_export_meta has failed since the log
    \* was configured
    log_io_failed,
    \* the lines fed to the Parser and the callbacks it invoked since it was
    \* constructed (kept by SpecParser)
    fed, trace,
    \* the arguments and the result of the last call of decode_status
    word, labels, detail,
    \* the source thread SpecRun follows through the statements of run()
    run,
    \* DataBus._lock (the thread that holds it), the calls each thread of
    \* SpecLock is in, innermost last, and the meta of the append that
    \* stored the most recent record (history)
    lock, callers, stored_meta,
    \* the threads of SpecHandle at the statements that use the raw-log
    \* handle: where each thread is, whether the file object _raw_log names
    \* has been closed, whether the source has been told to stop, and
    \* whether a statement has used a handle that was closed or None
    \* (history)
    rawio,
    pre_len, pre_stem, nlines, nops

vars == <<records, bus_meta, generation, listeners, seen_generation,
          phase, meta_hdr, data_hdr, meta,
          config, thread, raw_log, raw_log_path, raw_log_dir, raw_log_suffix,
          export_stem, fs, raw_buf, pc, cur, pos,
          lastOp, lastFn, calls, upd_args, fsOps, errors, yielded,
          status, changed, raised, ret, applied, stale,
          sinceReset, wiped, unsubscribed, received, openBase, concrete,
          log_io_failed, events, handled, fed, trace,
          word, labels, detail, run, lock, callers, stored_meta, rawio,
          pre_len, pre_stem, nlines, nops>>

---------------------------------------------------------------------------
(* Bounds of the model. *)

\* maxlen of the DataBus under test (DataBus(maxlen=N))
MaxLen == 2
\* appends between two resets in SpecBus
MaxAppends == 4
\* resets (the generation counter is unbounded in the program)
MaxGen == 2
\* length of the listener list
MaxListeners == 2
\* raw lines the sources deliver in one behaviour of Spec
MaxLines == 7
\* calls the owning thread makes in one behaviour of Spec
MaxOps == 2
\* lines fed to the Parser in one behaviour of SpecParser
MaxFed == 5
\* complete lines one serial.read returns at most
MaxChunk == 2
\* calls of DataBus methods the threads of SpecLock make
MaxCalls == 3

---------------------------------------------------------------------------
(* Generic helpers. *)

Min(a, b) == IF a <= b THEN a ELSE b
Max(a, b) == IF a >= b THEN a ELSE b
Range(q) == {q[i] : i \in 1..Len(q)}

\* the last n elements of q
LastN(q, n) == SubSeq(q, Len(q) - n + 1, Len(q))

\* a dict with no key
EmptyDict == [k \in {} |-> ""]

\* dict(zip(keys, vals)): positional, cut to the shorter, a repeated key
\* keeps its last value
ZipDict(keys, vals) ==
    LET n == Min(Len(keys), Len(vals))
    IN  [k \in {keys[i] : i \in 1..n} |->
            vals[CHOOSE i \in 1..n :
                    keys[i] = k /\ \A j \in (i+1)..n : keys[j] # k]]

---------------------------------------------------------------------------
(* DataBus (databus.py). *)

\* a bounded queue that refuses the new element at capacity (a variant
\* the program does not use)
DequeAppendDropNewest(q, x, n) ==
    IF Len(q) >= n THEN q ELSE Append(q, x)

\* collections.deque(maxlen=n).append(x): at capacity the leftmost
\* (oldest) element is discarded
DequeAppend(q, x, n) ==
    IF n = 0 THEN q
    ELSE IF Len(q) >= n THEN Append(Tail(q), x)
    ELSE Append(q, x)

\* list.remove(x): the first occurrence only
RECURSIVE ListRemove(_, _)
ListRemove(q, x) ==
    IF q = <<>> THEN q
    ELSE IF Head(q) = x THEN Tail(q)
    ELSE <<Head(q)>> \o ListRemove(Tail(q), x)

\* for listener in list(self._listeners): listener(meta, record)
Notify(ls, m, r) == [i \in 1..Len(ls) |-> [fn |-> ls[i], meta |-> m, record |-> r]]

\* an append that counts an eviction as a generation change (a variant
\* the program does not use)
DataBusAppendBumpsGeneration(s, m, r) ==
    [s EXCEPT !.bus_meta = m,
              !.records = DequeAppend(s.records, r, MaxLen),
              !.generation = IF Len(s.records) >= MaxLen THEN @ + 1 ELSE @,
              !.calls = @ \o Notify(s.listeners, m, r),
              !.sinceReset = Append(@, r)]

\* DataBus.append (the bus of the controller's tests has no persist_path,
\* so _append_csv is not reached)
DataBusAppend(s, m, r) ==
    [s EXCEPT !.bus_meta = m,
              !.records = DequeAppend(s.records, r, MaxLen),
              !.calls = @ \o Notify(s.listeners, m, r),
              !.sinceReset = Append(@, r)]

\* a reset that only counts (a variant the program does not use)
DataBusResetKeepsRecords(s) ==
    [s EXCEPT !.generation = @ + 1, !.sinceReset = <<>>, !.wiped = TRUE]

\* DataBus.reset: clears the records, increments the generation, keeps
\* meta.  databus.py of this revision does not define it; its callers
\* (acquisition.py) and test_databus.py do, and this is their contract.
DataBusReset(s) ==
    [s EXCEPT !.records = <<>>,
              !.generation = @ + 1,
              !.sinceReset = <<>>,
              !.wiped = TRUE]

\* DataBus.snapshot: list(self._records)
Snapshot(s) == s.records

\* DataBus.subscribe
DataBusSubscribe(s, fn) ==
    [s EXCEPT !.listeners = Append(@, fn),
              !.unsubscribed = @ \ {fn}]

\* DataBus.unsubscribe
DataBusUnsubscribe(s, fn) ==
    [s EXCEPT !.listeners = IF fn \in Range(@) THEN ListRemove(@, fn) ELSE @,
              !.unsubscribed = @ \cup {fn}]

\* MainWindow.refresh, its generation check
Refresh(s) ==
    [s EXCEPT !.seen_generation = s.generation, !.wiped = FALSE]

---------------------------------------------------------------------------
(* Text.  A token is a string; Chars gives the characters of the tokens    *)
(* the export stem is built from, and a file-name stem is a sequence of    *)
(* characters.                                                             *)

Chars(tok) ==
    CASE tok = "WTC3206"     -> <<"W", "T", "C", "3", "2", "0", "6">>
      [] tok = "PMNN4809A"   -> <<"P", "M", "N", "N", "4", "8", "0", "9", "A">>
      [] tok = "-PMNN4809A_" -> <<"-", "P", "M", "N", "N", "4", "8", "0", "9", "A", "_">>
      [] tok = "Li/_<e-acute><euro>"      -> <<"L", "i", "/", "_", "e-acute", "euro">>
      [] tok = "P06"         -> <<"P", "0", "6">>
      [] tok = "P07"         -> <<"P", "0", "7">>
      [] tok = "P40"         -> <<"P", "4", "0">>
      [] tok = "P70"         -> <<"P", "7", "0">>
      [] tok = "P05"         -> <<"P", "0", "5">>
      [] tok = "P04"         -> <<"P", "0", "4">>
      [] tok = "CC_CV"       -> <<"C", "C", "_", "C", "V">>
      [] tok = "1"           -> <<"1">>
      [] tok = "2"           -> <<"2">>
      [] tok = "13030"       -> <<"1", "3", "0", "3", "0">>
      [] tok = "31248"       -> <<"3", "1", "2", "4", "8">>
      [] tok = "<STX>31248"  -> <<"<STX>", "3", "1", "2", "4", "8">>
      [] tok = "13030<ETX>"  -> <<"1", "3", "0", "3", "0", "<ETX>">>
      [] tok = "1e3"         -> <<"1", "e", "3">>
      [] tok = "-1.5"        -> <<"-", "1", ".", "5">>
      [] tok = "x"           -> <<"x">>
      [] tok = "5"           -> <<"5">>
      [] tok = "1e999"       -> <<"1", "e", "9", "9", "9">>
      [] tok = "invalid"     -> <<"i", "n", "v", "a", "l", "i", "d">>
      [] tok = "9..9(310 digits)" -> [i \in 1..310 |-> "9"]
      [] tok = ""            -> <<>>

AlNum == {"W", "T", "C", "P", "M", "N", "A", "L", "i", "e", "r", "a", "w", "t",
          "c", "l", "o", "g", "x", "n", "v", "d",
          "0", "1", "2", "3", "4", "5", "6", "7", "8", "9"}

\* unicodedata.normalize("NFKD", raw).encode("ascii", "ignore"): an accented
\* letter keeps its base letter, a character with no ASCII decomposition
\* is dropped
RECURSIVE AsciiFold(_)
AsciiFold(cs) ==
    IF cs = <<>> THEN <<>>
    ELSE (CASE Head(cs) = "e-acute" -> <<"e">>
            [] Head(cs) = "euro" -> <<>>
            [] OTHER -> <<Head(cs)>>) \o AsciiFold(Tail(cs))

\* re.sub(r"[^A-Za-z0-9]+", "-", s): every maximal run of other characters
\* becomes one "-"
RECURSIVE DropNonAlNum(_)
DropNonAlNum(cs) ==
    IF cs = <<>> \/ Head(cs) \in AlNum THEN cs ELSE DropNonAlNum(Tail(cs))
RECURSIVE CollapseRuns(_)
CollapseRuns(cs) ==
    IF cs = <<>> THEN <<>>
    ELSE IF Head(cs) \in AlNum THEN <<Head(cs)>> \o CollapseRuns(Tail(cs))
    ELSE <<"-">> \o CollapseRuns(DropNonAlNum(cs))

\* str.strip("-_")
RECURSIVE LStrip(_)
LStrip(cs) ==
    IF cs # <<>> /\ Head(cs) \in {"-", "_"} THEN LStrip(Tail(cs)) ELSE cs
RECURSIVE RStrip(_)
RStrip(cs) ==
    IF cs # <<>> /\ cs[Len(cs)] \in {"-", "_"}
    THEN RStrip(SubSeq(cs, 1, Len(cs) - 1)) ELSE cs

\* export_utils._sanitize_token
SanitizeToken(raw) ==
    IF raw = "" THEN <<>>
    ELSE LStrip(RStrip(CollapseRuns(AsciiFold(Chars(raw)))))

\* "_".join(parts)
RECURSIVE JoinUnderscore(_)
JoinUnderscore(parts) ==
    IF parts = <<>> THEN <<>>
    ELSE IF Len(parts) = 1 THEN Head(parts)
    ELSE Head(parts) \o <<"_">> \o JoinUnderscore(Tail(parts))

\* meta.get(key): None and "" are both falsy for _sanitize_token
DictGet(d, key) == IF key \in DOMAIN d THEN d[key] ELSE ""

\* self._session_started.strftime("%Y%m%d_%H%M%S"), fixed at construction
SessionStem ==
    <<"2", "0", "2", "6", "1", "1", "0", "4", "_", "1", "3", "4", "5", "0", "1">>
RawStem == SessionStem \o <<"_", "r", "a", "w">>

\* a stem with the cradle token before the battery token (a variant the
\* program does not use)
BuildExportStemCradleFirst(m) ==
    LET battery == SanitizeToken(DictGet(m, "P70"))
        cradle == SanitizeToken(DictGet(m, "P07"))
        parts == <<SessionStem>>
                 \o (IF cradle # <<>> THEN <<cradle>> ELSE <<>>)
                 \o (IF battery # <<>> THEN <<battery>> ELSE <<>>)
    IN  JoinUnderscore(IF Len(parts) = 1
                       THEN Append(parts, <<"r", "a", "w">>) ELSE parts)

\* export_utils.build_export_stem
BuildExportStem(m) ==
    LET battery == SanitizeToken(DictGet(m, "P70"))
        cradle == SanitizeToken(DictGet(m, "P07"))
        parts == <<SessionStem>>
                 \o (IF battery # <<>> THEN <<battery>> ELSE <<>>)
                 \o (IF cradle # <<>> THEN <<cradle>> ELSE <<>>)
    IN  JoinUnderscore(IF Len(parts) = 1
                       THEN Append(parts, <<"r", "a", "w">>) ELSE parts)

---------------------------------------------------------------------------
(* Paths and configurations. *)

\* a pathlib.Path: its parent directory, the stem and the suffix of its
\* last component.  A path with no suffix is taken as a directory by
\* _configure_raw_log and then stands for the directory dir itself.
NoPath == [dir |-> "", stem |-> <<>>, suffix |-> ""]
DirPath(d) == [dir |-> d, stem |-> <<>>, suffix |-> ""]
FilePath(d, stem, suffix) == [dir |-> d, stem |-> stem, suffix |-> suffix]
NoDir == ""
NoStem == <<>>
NoThread == ""

\* AppConfig.persist_path's default: logs/wtc3_log.csv
DefaultPersistPath ==
    FilePath("logs", <<"w", "t", "c", "3", "_", "l", "o", "g">>, ".csv")

\* AppConfig, the fields the controller reads.  sample_file: "" (None),
\* "sample.txt" (exists) or "missing.txt"; serial_port: "" , "COM1" (can
\* be opened) or "BAD" (serial.Serial raises); the directory "denied"
\* cannot be created
Cfg(sample, enabled, port, persist, path) ==
    [sample_file |-> sample, serial_enabled |-> enabled, serial_port |-> port,
     persist_csv |-> persist, persist_path |-> path]

\* no AppConfig
NoConfig == Cfg("", FALSE, "", FALSE, NoPath)

Configs ==
    { Cfg("sample.txt", FALSE, "", TRUE, DirPath("raw")),
      Cfg("sample.txt", FALSE, "", TRUE, DefaultPersistPath),
      Cfg("sample.txt", TRUE, "COM1", FALSE, DefaultPersistPath),
      Cfg("missing.txt", FALSE, "", TRUE, DirPath("raw")),
      Cfg("", TRUE, "BAD", TRUE, DirPath("raw")),
      Cfg("", TRUE, "COM1", TRUE, DirPath("raw")),
      Cfg("", FALSE, "", TRUE, DirPath("raw")),
      Cfg("sample.txt", FALSE, "", TRUE, DirPath("denied")) }

\* the MetaBlocks the owning thread passes to update_export_meta and
\* export_stem
MetaStream == [P07 |-> "WTC3206", P70 |-> "PMNN4809A"]
MetaSameStem == [P07 |-> "WTC3206", P70 |-> "-PMNN4809A_"]
MetaOther == [P07 |-> "WTC3206", P70 |-> "Li/_<e-acute><euro>"]
OwnerMetas == {EmptyDict, MetaStream, MetaSameStem, MetaOther}

---------------------------------------------------------------------------
(* Parser (parser.py).  A raw line is a sequence of pieces: a whitespace    *)
(* character, a control character, or a run of printable characters; a     *)
(* token is the string its pieces spell.                                   *)

TAB == "\t"
\* characters for which str.isspace() holds: str.strip() and str.split()
\* remove them
Whitespace == {" ", TAB}
\* the control characters STX (0x02) and ETX (0x03): str.isspace() is
\* false for them
STX == "<STX>"
ETX == "<ETX>"

\* line.strip()
RECURSIVE StripLeft(_)
StripLeft(line) ==
    IF line # <<>> /\ Head(line) \in Whitespace THEN StripLeft(Tail(line)) ELSE line
RECURSIVE StripRight(_)
StripRight(line) ==
    IF line # <<>> /\ line[Len(line)] \in Whitespace
    THEN StripRight(SubSeq(line, 1, Len(line) - 1)) ELSE line
\* a strip that removes nothing (a variant the program does not use)
StripNothing(line) == line

Strip(line) == StripLeft(StripRight(line))

\* str.split(): the maximal runs of characters that are not whitespace;
\* tok is the run being read, acc the tokens read so far
RECURSIVE SplitWsAcc(_, _, _)
SplitWsAcc(line, tok, acc) ==
    IF line = <<>> THEN (IF tok = "" THEN acc ELSE Append(acc, tok))
    ELSE IF Head(line) \in Whitespace
    THEN SplitWsAcc(Tail(line), "", IF tok = "" THEN acc ELSE Append(acc, tok))
    ELSE SplitWsAcc(Tail(line), tok \o Head(line), acc)

\* parser.split_ws: [tok for tok in line.strip().split() if tok]
SplitWs(line) == SplitWsAcc(Strip(line), "", <<>>)

Digits == {"0", "1", "2", "3", "4", "5", "6", "7", "8", "9"}
DigitVal(c) ==
    CASE c = "0" -> 0 [] c = "1" -> 1 [] c = "2" -> 2 [] c = "3" -> 3
      [] c = "4" -> 4 [] c = "5" -> 5 [] c = "6" -> 6 [] c = "7" -> 7
      [] c = "8" -> 8 [] c = "9" -> 9

IsDigits(cs) == cs # <<>> /\ \A i \in 1..Len(cs) : cs[i] \in Digits
\* the value of a run of digits
RECURSIVE DigitsVal(_)
DigitsVal(cs) ==
    IF cs = <<>> THEN 0
    ELSE 10 * DigitsVal(SubSeq(cs, 1, Len(cs) - 1)) + DigitVal(cs[Len(cs)])

\* a number's text without its sign, and the sign
Unsigned(cs) == IF cs # <<>> /\ Head(cs) \in {"+", "-"} THEN Tail(cs) ELSE cs
SignOf(cs) == IF cs # <<>> /\ Head(cs) = "-" THEN -1 ELSE 1
\* the position of the first character of cs that is in set (0: none)
FirstIn(cs, set) ==
    IF \E i \in 1..Len(cs) : cs[i] \in set
    THEN CHOOSE i \in 1..Len(cs) : cs[i] \in set /\ \A j \in 1..(i - 1) : cs[j] \notin set
    ELSE 0

\* the parts of a decimal literal: digits, an optional point, an optional
\* exponent
Mantissa(cs) ==
    LET u == Unsigned(cs)
        e == FirstIn(u, {"e", "E"})
    IN  IF e = 0 THEN u ELSE SubSeq(u, 1, e - 1)
Exponent(cs) ==
    LET u == Unsigned(cs)
        e == FirstIn(u, {"e", "E"})
    IN  IF e = 0 THEN <<>> ELSE SubSeq(u, e + 1, Len(u))
HasExponent(cs) == FirstIn(Unsigned(cs), {"e", "E"}) # 0
IntPart(m) ==
    LET d == FirstIn(m, {"."}) IN IF d = 0 THEN m ELSE SubSeq(m, 1, d - 1)
FracPart(m) ==
    LET d == FirstIn(m, {"."}) IN IF d = 0 THEN <<>> ELSE SubSeq(m, d + 1, Len(m))

\* float(text) succeeds.  The texts of the model hold no underscore between
\* digits and are none of the words inf, infinity, nan.
IsFloat(cs) ==
    LET m == Mantissa(cs)
        ip == IntPart(m)
        fp == FracPart(m)
    IN  /\ ip \o fp # <<>>
        /\ \A i \in 1..Len(ip) : ip[i] \in Digits
        /\ \A i \in 1..Len(fp) : fp[i] \in Digits
        /\ HasExponent(cs) => IsDigits(Unsigned(Exponent(cs)))

\* int(text) succeeds
IsInt(cs) == IsDigits(Unsigned(cs))

\* Parser._is_number
IsNumber(tok) == tok # "" /\ IsFloat(Chars(tok))

\* PARAMETERS[key].scale as a power of ten (0: no scale), for the keys of
\* the model's headers; x is not in PARAMETERS
KnownKeys == {"P04", "P05", "P06", "P07", "P40", "P70"}
ScaleExp(key) == IF key = "P40" THEN -3 ELSE 0

\* a cast value: an integer, a float num * 10^exp, or the raw string
\* passed through
IntVal(n) == [kind |-> "int", num |-> n, exp |-> 0, text |-> ""]
ScaledVal(n, e) == [kind |-> "float", num |-> n, exp |-> e, text |-> ""]
StrVal(raw) == [kind |-> "str", num |-> 0, exp |-> 0, text |-> raw]

\* int(raw)
IntOf(cs) == SignOf(cs) * DigitsVal(Unsigned(cs))
\* float(raw), as num * 10^exp
FloatOf(cs) ==
    LET m == Mantissa(cs)
        x == Exponent(cs)
    IN  ScaledVal(SignOf(cs) * DigitsVal(IntPart(m) \o FracPart(m)),
                  (IF x = <<>> THEN 0 ELSE SignOf(x) * DigitsVal(Unsigned(x)))
                  - Len(FracPart(m)))

\* "." in raw or "e" in raw.lower()
HasDotOrE(cs) == FirstIn(cs, {".", "e", "E"}) # 0

\* value * scale: an int times a float scale is a float
Scaled(v, e) == IF e = 0 THEN v ELSE ScaledVal(v.num, v.exp + e)

\* an integer of more than 309 digits: Python holds it exactly, and no
\* float can (the largest float has 309 digits); it is kept by its text
ExceedsFloat(cs) == Len(Unsigned(cs)) > 309
BigIntVal(raw) == [kind |-> "int", num |-> 0, exp |-> 0, text |-> raw]
\* the cast did not return: value * self.scale raised OverflowError
OverflowRaised == [kind |-> "OverflowError", num |-> 0, exp |-> 0, text |-> ""]

\* int(raw)
IntValOf(raw) ==
    IF ExceedsFloat(Chars(raw)) THEN BigIntVal(raw) ELSE IntVal(IntOf(Chars(raw)))

\* Parser._cast_default
CastDefault(raw) ==
    LET cs == Chars(raw)
    IN  IF HasDotOrE(cs) THEN (IF IsFloat(cs) THEN FloatOf(cs) ELSE StrVal(raw))
        ELSE IF IsInt(cs) THEN IntValOf(raw)
        ELSE StrVal(raw)

\* a cast that returns the raw token when the scaling overflows (a variant
\* the program does not use)
CastGuarded(key, raw) ==
    LET cs == Chars(raw)
    IN  IF raw = "" THEN StrVal(raw)
        ELSE IF HasDotOrE(cs)
        THEN (IF IsFloat(cs) THEN Scaled(FloatOf(cs), ScaleExp(key)) ELSE StrVal(raw))
        ELSE IF IsInt(cs)
        THEN (IF ExceedsFloat(cs) THEN StrVal(raw)
              ELSE Scaled(IntVal(IntOf(cs)), ScaleExp(key)))
        ELSE StrVal(raw)

\* ParameterInfo.cast; value * self.scale stands outside the try
Cast(key, raw) ==
    LET cs == Chars(raw)
    IN  IF raw = "" THEN StrVal(raw)
        ELSE IF HasDotOrE(cs)
        THEN (IF IsFloat(cs) THEN Scaled(FloatOf(cs), ScaleExp(key)) ELSE StrVal(raw))
        ELSE IF IsInt(cs)
        THEN (IF ~ExceedsFloat(cs) THEN Scaled(IntVal(IntOf(cs)), ScaleExp(key))
              ELSE IF ScaleExp(key) # 0 THEN OverflowRaised
              ELSE BigIntVal(raw))
        ELSE StrVal(raw)

\* a record of the raw tokens, none cast (a variant the program does not
\* use)
BuildRecordUncast(hdr, tokens) ==
    LET raw == ZipDict(hdr, tokens)
    IN  [k \in DOMAIN raw |-> StrVal(raw[k])]

\* the record of _handle_values: zip(data_hdr, tokens), each token cast
\* by its key
BuildRecord(hdr, tokens) ==
    LET raw == ZipDict(hdr, tokens)
    IN  [k \in DOMAIN raw |->
            IF k \in KnownKeys THEN Cast(k, raw[k]) ELSE CastDefault(raw[k])]

\* feed_line's classification: nonnum >= max(1, len(tokens) // 2)
NonNum(tokens) == Cardinality({i \in 1..Len(tokens) : ~IsNumber(tokens[i])})
\* a header by strict majority of the non-numeric tokens (a variant the
\* program does not use)
IsHeaderLineMajority(tokens) == 2 * NonNum(tokens) > Len(tokens)
IsHeaderLine(tokens) == NonNum(tokens) >= Max(1, Len(tokens) \div 2)

---------------------------------------------------------------------------
(* Status decoding (status.py).  The value passed to decode_status is a    *)
(* value of a record (an int, a float or a string), an int, or None.       *)

NoneVal == [kind |-> "none", num |-> 0, exp |-> 0, text |-> ""]

Abs(n) == IF n < 0 THEN -n ELSE n
RECURSIVE NumDigits(_)
NumDigits(n) == IF n < 10 THEN 1 ELSE 1 + NumDigits(n \div 10)

\* a float literal beyond the range of a double is read as infinity
\* (float("1e999") == inf)
IsInf(v) == v.kind = "float" /\ v.num # 0 /\ NumDigits(Abs(v.num)) + v.exp > 309

\* int(x) of a finite float: truncation towards zero
Trunc(v) ==
    IF v.exp >= 0 THEN v.num * 10^(v.exp)
    ELSE (IF v.num < 0 THEN -1 ELSE 1) * (Abs(v.num) \div 10^(-v.exp))

\* decode_status: raw_value = int(value) if value is not None else None,
\* with TypeError and ValueError caught; exc is an exception that is not
\* caught, none stands for raw_value None
CoerceInt(value) ==
    CASE value.kind = "none" -> [exc |-> "", none |-> TRUE, int |-> 0]
      [] value.kind = "int" -> [exc |-> "", none |-> FALSE, int |-> value.num]
      [] value.kind = "float" ->
            IF IsInf(value) THEN [exc |-> "OverflowError", none |-> FALSE, int |-> 0]
            ELSE [exc |-> "", none |-> FALSE, int |-> Trunc(value)]
      [] value.kind = "str" ->
            IF IsInt(Chars(value.text))
            THEN [exc |-> "", none |-> FALSE, int |-> IntOf(Chars(value.text))]
            ELSE [exc |-> "", none |-> TRUE, int |-> 0]

BATTERY_VOLTAGE ==
    0 :> "Tiefentladen" @@ 1 :> "Niedrig" @@ 2 :> "Normal" @@ 3 :> "Voll"
    @@ 4 :> "Überspannung" @@ 5 :> "Ladeende"
BATTERY_TEMPERATURE ==
    0 :> "Kalt" @@ 1 :> "Kühl" @@ 2 :> "Normal" @@ 3 :> "Warm" @@ 4 :> "Heiß"
BATTERY_RESISTANCE ==
    0 :> "Niedrig" @@ 1 :> "Normal" @@ 2 :> "Hoch" @@ 3 :> "Nicht verwendet"
CHARGER_SUPPLY ==
    0 :> "Tief" @@ 1 :> "Niedrig" @@ 2 :> "Normal" @@ 3 :> "Hoch"
CHARGER_CURRENT ==
    0 :> "Aus" @@ 1 :> "10%" @@ 2 :> "20%" @@ 3 :> "50%" @@ 4 :> "100%"
    @@ 7 :> "Nicht verwendet"
FAULT_CODES ==
    0 :> "Keine Fehler" @@ 1 :> "Geringe Kapazität" @@ 2 :> "Hohe Kapazität"
    @@ 3 :> "Temperaturdurchgang" @@ 4 :> "Hoher Widerstand"
PERIPHERAL_BITS ==
    14 :> "Eingang aktiviert" @@ 15 :> "Ausgang aktiviert" @@ 16 :> "Regler aktiv"
    @@ 17 :> "Referenz aktiv" @@ 18 :> "Sleep aktiv"
NICKEL_EOC_BITS ==
    22 :> "ΔV Drop erreicht" @@ 23 :> "ΔT Anstieg"
    @@ 24 :> "Max. Spannungsabfall" @@ 25 :> "Hohe Temperatur"

\* a field without the mask (a variant the program does not use)
FieldUnmasked(raw_value, offset, size) == raw_value \div 2^offset

\* field(offset, size): (raw_value >> offset) & ((1 << size) - 1)
Field(raw_value, offset, size) == (raw_value \div 2^offset) % 2^size

\* raw_value & (1 << bit)
BitSet(raw_value, bit) == (raw_value \div 2^bit) % 2 = 1

\* add_enum: mapping.get(code), or f"Unbekannt ({code})"; the entry is
\* f"{label}: {text}"
EnumEntry(label, mapping, code) ==
    label \o ": " \o (IF code \in DOMAIN mapping THEN mapping[code]
                      ELSE "Unbekannt (" \o ToString(code) \o ")")

\* the keys of a dict of bits in increasing order
RECURSIVE SortedBits(_)
SortedBits(S) ==
    IF S = {} THEN <<>>
    ELSE LET m == CHOOSE x \in S : \A y \in S : x <= y
         IN  <<m>> \o SortedBits(S \ {m})

\* the lines for the bits of mapping that are set in raw_value, in the
\* order of the bits
BitLines(prefix, mapping, bits, raw_value) ==
    LET set == SelectSeq(bits, LAMBDA b : BitSet(raw_value, b))
    IN  [i \in 1..Len(set) |-> prefix \o mapping[set[i]]]

\* the bits decode_status decodes itself
HandledBits ==
    (0..2) \cup (3..5) \cup (6..7) \cup (8..9) \cup (11..13) \cup (19..21)
    \cup DOMAIN PERIPHERAL_BITS \cup DOMAIN NICKEL_EOC_BITS

\* the StatusDetail for a status word that is None
EmptyDetail ==
    [exc |-> "", none |-> TRUE, raw_value |-> 0, badges |-> <<>>, details |-> <<>>]

\* status.decode_status
DecodeStatus(value, bit_labels) ==
    LET c == CoerceInt(value)
        raw_value == c.int
        voltage == EnumEntry("Batteriespannung", BATTERY_VOLTAGE, Field(raw_value, 0, 3))
        temperature ==
            EnumEntry("Batterietemperatur", BATTERY_TEMPERATURE, Field(raw_value, 3, 3))
        resistance ==
            EnumEntry("Innenwiderstand", BATTERY_RESISTANCE, Field(raw_value, 6, 2))
        supply == EnumEntry("Versorgung", CHARGER_SUPPLY, Field(raw_value, 8, 2))
        current == EnumEntry("Ladestrom", CHARGER_CURRENT, Field(raw_value, 11, 3))
        fault == EnumEntry("Fehler", FAULT_CODES, Field(raw_value, 19, 3))
        own == DOMAIN bit_labels \ HandledBits
    IN  IF c.exc # "" THEN [EmptyDetail EXCEPT !.exc = c.exc]
        ELSE IF c.none THEN EmptyDetail
        ELSE [exc |-> "", none |-> FALSE, raw_value |-> raw_value,
              badges |-> <<voltage, temperature, supply, current, fault>>,
              details |->
                  <<voltage, temperature, resistance, supply, current, fault>>
                  \o BitLines("Peripherie: ", PERIPHERAL_BITS,
                              SortedBits(DOMAIN PERIPHERAL_BITS), raw_value)
                  \o BitLines("NiCd EoC: ", NICKEL_EOC_BITS,
                              SortedBits(DOMAIN NICKEL_EOC_BITS), raw_value)
                  \o BitLines("", bit_labels, SortedBits(own), raw_value)]

---------------------------------------------------------------------------
(* The raw-log file.  A file's content is the sequence of the pieces       *)
(* written to it: raw lines and NL.                                        *)

NL == <<"\n">>

\* str.splitlines() of a content: the pieces between two NL
RECURSIVE SplitAcc(_, _)
SplitAcc(content, acc) ==
    IF content = <<>> THEN (IF acc = <<>> THEN <<>> ELSE <<acc>>)
    ELSE IF Head(content) = NL THEN <<acc>> \o SplitAcc(Tail(content), <<>>)
    ELSE SplitAcc(Tail(content), Append(acc, Head(content)))
Splitlines(content) == SplitAcc(content, <<>>)

\* Path.exists()
Exists(s, p) == p \in DOMAIN s.fs

\* TextIO.write: into the handle's buffer; the empty string adds nothing
FsWrite(s, piece) ==
    IF piece = <<>> THEN s ELSE [s EXCEPT !.raw_buf = Append(@, piece)]

\* a line as Splitlines gives it back: the pieces it was written in
LineOf(raw) == IF raw = <<>> THEN <<>> ELSE <<raw>>

\* TextIO.flush: the buffer reaches the file
FsFlush(s) ==
    [s EXCEPT !.fs = IF s.raw_buf = <<>> THEN @
                     ELSE [@ EXCEPT ![s.raw_log] = @ \o s.raw_buf],
              !.raw_buf = <<>>,
              !.fsOps = Append(@, "flush")]

\* TextIO.close: flushes and releases the handle
FsClose(s) ==
    [s EXCEPT !.fs = IF s.raw_buf = <<>> THEN @
                     ELSE [@ EXCEPT ![s.raw_log] = @ \o s.raw_buf],
              !.raw_buf = <<>>,
              !.raw_log = NoPath,
              !.fsOps = Append(@, "close")]

\* Path.open('a'): creates the file when it does not exist, keeps its
\* content when it does
FsOpen(s, p) ==
    [s EXCEPT !.fs = [q \in DOMAIN s.fs \cup {p} |->
                         IF q \in DOMAIN s.fs THEN s.fs[q] ELSE <<>>],
              !.raw_log = p,
              !.fsOps = Append(@, "open")]

\* Path.replace(target): the file takes the new name; a file that had
\* that name is overwritten
FsReplace(s, p, target) ==
    [s EXCEPT !.fs = [q \in (DOMAIN s.fs \ {p}) \cup {target} |->
                         IF q = target THEN s.fs[p] ELSE s.fs[q]],
              !.fsOps = Append(@, "rename")]

---------------------------------------------------------------------------
(* AcquisitionController (acquisition.py).  The parameter e is what the    *)
(* environment answers during the handler: e.ren (Path.replace succeeds),  *)
(* e.open, e.open2, e.reopen (Path.open succeeds), e.write (the write and  *)
(* flush succeed), e.join (the source thread has ended when                *)
(* join(timeout=1.0) returns).  s.exc is the exception that escapes the    *)
(* handler, "" when none does.                                             *)

Emit(s, msg) == [s EXCEPT !.errors = Append(@, msg)]

\* AcquisitionController._close_raw_log
CloseRawLog(s, e) ==
    LET current_path == s.raw_log_path
        s1 == IF s.raw_log # NoPath THEN FsClose(FsFlush(s)) ELSE s
        target == FilePath(s.raw_log_dir, s.export_stem, s.raw_log_suffix)
    IN  IF /\ current_path # NoPath /\ s.raw_log_dir # NoDir /\ s.export_stem # NoStem
           /\ target # current_path /\ Exists(s1, current_path)
        THEN IF e.ren
             THEN [FsReplace(s1, current_path, target) EXCEPT
                      !.raw_log_path = target,
                      !.config.persist_path = target]
             ELSE [s1 EXCEPT !.raw_log_path = current_path,
                             !.fsOps = Append(@, "rename_failed")]
        ELSE [s1 EXCEPT !.raw_log_path = current_path]

\* the exceptions _build_thread raises as AcquisitionError
AcquisitionErrors == {"Sample file not found", "Serial connection failed"}

\* self._raw_log_dir.mkdir(parents=True, exist_ok=True) raises OSError for
\* a directory that cannot be created
MkdirFails(dir) == dir = "denied"

\* AcquisitionController._configure_raw_log
ConfigureRawLog(s, path, e, openOk) ==
    LET s1 == [CloseRawLog(s, e) EXCEPT
                  !.raw_log_path = NoPath,
                  !.raw_log_dir = NoDir,
                  !.raw_log_suffix = ".tsv",
                  !.export_stem = NoStem,
                  !.concrete = NoStem,
                  !.log_io_failed = FALSE,
                  !.received = <<>>,
                  !.openBase = <<>>]
        isFile == path.suffix # ""
        suffix == IF isFile THEN path.suffix ELSE ".tsv"
        initial_stem == IF isFile /\ path.stem # <<>> THEN path.stem ELSE RawStem
        initial_path == FilePath(path.dir, initial_stem, suffix)
        s2 == [s1 EXCEPT !.raw_log_dir = path.dir, !.raw_log_suffix = suffix]
    IN  IF path = NoPath THEN s1
        ELSE IF MkdirFails(path.dir) THEN [s2 EXCEPT !.exc = "OSError"]
        ELSE IF ~openOk
        THEN [Emit(s2, "Raw data logging unavailable") EXCEPT
                 !.raw_log = NoPath,
                 !.raw_log_path = NoPath,
                 !.fsOps = Append(@, "open_failed")]
        ELSE [FsOpen(s2, initial_path) EXCEPT
                 !.raw_log_path = initial_path,
                 !.config.persist_path = initial_path,
                 !.export_stem = IF isFile THEN initial_stem ELSE NoStem,
                 !.concrete = IF isFile THEN initial_stem ELSE NoStem,
                 !.openBase = IF Exists(s2, initial_path)
                              THEN s2.fs[initial_path] ELSE <<>>]

\* recording the rename target whatever file was reopened (a variant the
\* program does not use)
RecordedPathIsTarget(reopened_path, target) == target

\* update_export_meta: self._raw_log_path = reopened_path
RecordedPath(reopened_path, target) == reopened_path

\* a comparison that never finds the stem unchanged (a variant the
\* program does not use)
StemUnchangedNever(new_stem, current) == FALSE

\* update_export_meta: new_stem == self._export_stem
StemUnchanged(new_stem, current) == new_stem = current

\* reopening at the target although the rename failed (a variant the
\* program does not use)
ReopenedPathIsTarget(rename_exc, current_path, target) == target

\* update_export_meta: reopened_path = target, or current_path when the
\* rename raised
ReopenedPath(rename_exc, current_path, target) ==
    IF rename_exc THEN current_path ELSE target

\* AcquisitionController.update_export_meta
UpdateExportMeta(s, m, e) ==
    LET s0 == [s EXCEPT !.upd_args = Append(@, m)]
        new_stem == BuildExportStem(m)
        target == FilePath(s.raw_log_dir, new_stem, s.raw_log_suffix)
        s1 == [s0 EXCEPT !.export_stem = new_stem]
        current_path == s.raw_log_path
        closed == FsClose(FsFlush(s1))
        canRename == current_path # NoPath /\ Exists(closed, current_path)
        renamed == IF canRename /\ e.ren
                   THEN FsReplace(closed, current_path, target)
                   ELSE IF canRename
                   THEN [closed EXCEPT !.fsOps = Append(@, "rename_failed"),
                                       !.log_io_failed = TRUE]
                   ELSE closed
        rename_exc == canRename /\ ~e.ren
        reopened_path == ReopenedPath(rename_exc, current_path, target)
        recorded == RecordedPath(reopened_path, target)
        opened == [FsOpen(renamed, reopened_path) EXCEPT
                      !.raw_log_path = recorded,
                      !.config.persist_path = recorded]
    IN  IF s.raw_log_dir = NoDir THEN s0
        ELSE IF new_stem = <<>> \/ StemUnchanged(new_stem, s.export_stem) THEN s0
        ELSE IF s.raw_log = NoPath
        THEN [s1 EXCEPT !.raw_log_path = target, !.config.persist_path = target]
        ELSE IF current_path = target
        THEN [s1 EXCEPT !.raw_log_path = target, !.config.persist_path = target]
        ELSE IF ~e.reopen
        THEN [Emit(renamed, "Raw data logging unavailable") EXCEPT
                 !.raw_log = NoPath,
                 !.raw_log_path = NoPath,
                 !.config.persist_path = NoPath,
                 !.log_io_failed = TRUE,
                 !.fsOps = Append(@, "open_failed")]
        ELSE IF rename_exc THEN Emit(opened, "Raw data log rename failed")
        ELSE opened

\* AcquisitionController.export_stem; no_meta stands for meta=None
ExportStem(s, m, no_meta, e) ==
    IF no_meta THEN s ELSE UpdateExportMeta(s, m, e)

\* an invocation of a callback registered with on_data_header, or of one
\* registered with on_record
HeaderEvent(tokens) ==
    [kind |-> "header", tokens |-> tokens, meta |-> EmptyDict, record |-> EmptyDict]
RecordEvent(m, r) ==
    [kind |-> "record", tokens |-> <<>>, meta |-> m, record |-> r]

\* what export_stem returns in state s
ExportStemValue(s) == IF s.export_stem # NoStem THEN s.export_stem ELSE RawStem

\* AcquisitionController._handle_record
HandleRecord(s, m, r, e) ==
    LET s1 == DataBusAppend([s EXCEPT !.yielded = Append(@, r),
                                      !.events = Append(@, RecordEvent(m, r))],
                            m, r)
    IN  IF m # EmptyDict /\ s1.config.persist_csv
        THEN UpdateExportMeta(s1, m, e) ELSE s1

\* a callback that ignores the header (a variant the program does not use)
OnDataHeaderIgnored(s, tokens) == s

\* the callback the controller registers with Parser.on_data_header
OnDataHeader(s, tokens) == DataBusReset(s)

\* Parser: a header that becomes the data header fires the callbacks
\* registered with on_data_header
FireDataHeader(s, tokens) ==
    OnDataHeader([s EXCEPT !.events = Append(@, HeaderEvent(tokens))], tokens)

\* a _handle_header that invokes no callback (a variant the program does
\* not use)
HandleHeaderSilent(s, tokens) ==
    IF s.meta_hdr = <<>>
    THEN [s EXCEPT !.meta_hdr = tokens, !.phase = "expect_meta_values"]
    ELSE [s EXCEPT !.data_hdr = tokens, !.phase = "expect_data_values"]

\* a _handle_header that keeps a data header once it has one (a variant
\* the program does not use)
HandleHeaderKeepsDataHdr(s, tokens) ==
    IF s.meta_hdr = <<>>
    THEN [s EXCEPT !.meta_hdr = tokens, !.phase = "expect_meta_values"]
    ELSE IF s.data_hdr = <<>>
    THEN FireDataHeader([s EXCEPT !.data_hdr = tokens,
                                  !.phase = "expect_data_values"], tokens)
    ELSE FireDataHeader([s EXCEPT !.phase = "expect_data_values"], tokens)

\* Parser._handle_header
HandleHeader(s, tokens) ==
    IF s.meta_hdr = <<>>
    THEN [s EXCEPT !.meta_hdr = tokens, !.phase = "expect_meta_values"]
    ELSE IF s.data_hdr = <<>>
    THEN FireDataHeader([s EXCEPT !.data_hdr = tokens,
                                  !.phase = "expect_data_values"], tokens)
    ELSE FireDataHeader([s EXCEPT !.data_hdr = tokens,
                                  !.phase = "expect_data_values"], tokens)

\* Parser._handle_values; the controller's _handle_record is the one
\* callback registered with on_record
HandleValues(s, tokens, e) ==
    IF s.phase = "expect_meta_values"
    THEN [s EXCEPT !.meta = ZipDict(s.meta_hdr, tokens), !.phase = "find_header"]
    ELSE IF s.phase \in {"expect_data_values", "data"}
    THEN LET record == BuildRecord(s.data_hdr, tokens)
         IN  IF \E k \in DOMAIN record : record[k] = OverflowRaised
             THEN [s EXCEPT !.phase = "data", !.exc = "OverflowError"]
             ELSE HandleRecord([s EXCEPT !.phase = "data"], s.meta, record, e)
    ELSE s

\* a feed_line that classifies the line in every phase (a variant the
\* program does not use)
FeedLineClassifies(s, line, e) ==
    LET tokens == SplitWs(line)
    IN  IF Strip(line) = <<>> THEN s
        ELSE IF IsHeaderLine(tokens)
        THEN HandleHeader([s EXCEPT !.handled = "header"], tokens)
        ELSE HandleValues([s EXCEPT !.handled = "values"], tokens, e)

\* Parser.feed_line
\* a reset that leaves the phase as it is (a variant the program does not
\* use)
ParserResetKeepsPhase(s) ==
    [s EXCEPT !.meta_hdr = <<>>, !.meta = EmptyDict, !.data_hdr = <<>>]

\* Parser.reset
ParserReset(s) ==
    [s EXCEPT !.meta_hdr = <<>>, !.meta = EmptyDict, !.data_hdr = <<>>,
              !.phase = "find_header"]

FeedLine(s, line, e) ==
    LET tokens == SplitWs(line)
    IN  IF Strip(line) = <<>> THEN s
        ELSE IF s.phase = "expect_meta_values"
        THEN HandleValues([s EXCEPT !.handled = "values"], tokens, e)
        ELSE IF IsHeaderLine(tokens)
        THEN HandleHeader([s EXCEPT !.handled = "header"], tokens)
        ELSE HandleValues([s EXCEPT !.handled = "values"], tokens, e)

\* a write without the newline (a variant the program does not use)
WriteRawNoNewline(s, raw) == FsFlush(FsWrite(s, raw))

\* _handle_raw_line: write(raw); write("\n"); flush()
WriteRaw(s, raw) == FsFlush(FsWrite(FsWrite(s, raw), NL))

\* AcquisitionController._handle_raw_line, up to the call of feed_line
HandleRawLineWrite(s, raw, e) ==
    IF s.raw_log # NoPath
    THEN LET s1 == [s EXCEPT !.received = Append(@, raw)]
         IN  IF e.write THEN WriteRaw(s1, raw)
             ELSE CloseRawLog(Emit(s1, "Raw data logging failed"), e)
    ELSE s

\* a selection that looks at the serial port first (a variant the program
\* does not use)
BuildThreadSerialFirst(cfg) ==
    IF cfg.serial_enabled /\ cfg.serial_port # ""
    THEN IF cfg.serial_port = "BAD"
         THEN [kind |-> NoThread, exc |-> "Serial connection failed"]
         ELSE [kind |-> "serial", exc |-> ""]
    ELSE IF cfg.sample_file # ""
    THEN IF cfg.sample_file = "missing.txt"
         THEN [kind |-> NoThread, exc |-> "Sample file not found"]
         ELSE [kind |-> "file", exc |-> ""]
    ELSE [kind |-> NoThread, exc |-> ""]

\* AcquisitionController._build_thread: the source kind, or the
\* AcquisitionError it raises
BuildThread(cfg) ==
    IF cfg.sample_file # ""
    THEN IF cfg.sample_file = "missing.txt"
         THEN [kind |-> NoThread, exc |-> "Sample file not found"]
         ELSE [kind |-> "file", exc |-> ""]
    ELSE IF cfg.serial_enabled /\ cfg.serial_port # ""
    THEN IF cfg.serial_port = "BAD"
         THEN [kind |-> NoThread, exc |-> "Serial connection failed"]
         ELSE [kind |-> "serial", exc |-> ""]
    ELSE [kind |-> NoThread, exc |-> ""]

\* AcquisitionController._describe_source
DescribeSource(cfg) ==
    IF cfg.sample_file # "" THEN "Streaming from sample file"
    ELSE IF cfg.serial_enabled /\ cfg.serial_port # "" THEN "Serial connection active"
    ELSE "No input configured."

\* AcquisitionController._start_with_config
StartWithConfig(s, cfg, e, openOk) ==
    LET s1 == DataBusReset([s EXCEPT !.config = cfg])
        s2 == ConfigureRawLog(s1, IF cfg.persist_csv THEN cfg.persist_path ELSE NoPath,
                              e, openOk)
        b == BuildThread(cfg)
        s3 == [s2 EXCEPT !.thread = b.kind,
                         !.status = Append(@, IF b.kind # NoThread
                                              THEN DescribeSource(cfg)
                                              ELSE "No data source configured.")]
    IN  IF s2.exc # "" THEN s2
        ELSE IF b.exc # "" THEN [CloseRawLog(s2, e) EXCEPT !.exc = b.exc]
        ELSE [s3 EXCEPT !.changed = Append(@, s3.config)]

\* AcquisitionController.stop
Stop(s, e) ==
    IF s.thread = NoThread THEN s
    ELSE CloseRawLog([s EXCEPT !.thread = NoThread,
                               !.stale = IF e.join THEN @ ELSE @ + 1], e)

\* a start that lets the AcquisitionError through (a variant the program
\* does not use)
StartRaises(s, e) == StartWithConfig(Stop(s, e), Stop(s, e).config, e, e.open)

\* AcquisitionController.start
Start(s, e) ==
    LET s1 == Stop(s, e)
        s2 == StartWithConfig(s1, s1.config, e, e.open)
    IN  IF s2.exc \in AcquisitionErrors
        THEN [Emit(s2, s2.exc) EXCEPT !.exc = ""]
        ELSE s2

\* AcquisitionController.apply_config.  previous_config is the object
\* self._config names, so it carries what stop() writes to persist_path.
ApplyConfig(s, new_config, e) ==
    LET s1 == Stop([s EXCEPT !.applied = new_config], e)
        previous_config == s1.config
        s2 == StartWithConfig(s1, new_config, e, e.open)
        s3 == StartWithConfig([s2 EXCEPT !.exc = ""], previous_config, e, e.open2)
    IN  IF s2.exc = "" THEN [s2 EXCEPT !.ret = "True"]
        ELSE IF s2.exc \notin AcquisitionErrors THEN s2
        ELSE IF s3.exc = "" THEN [Emit(s3, s2.exc) EXCEPT !.ret = "False"]
        ELSE IF s3.exc \in AcquisitionErrors
        THEN [Emit(s3, s2.exc) EXCEPT !.exc = "", !.ret = "False"]
        ELSE s3

---------------------------------------------------------------------------
(* The source threads, statement by statement.  A thread is a record: its  *)
(* class (kind), its fields (loop, running for the Event _running,         *)
(* port_open for the state of _serial, buffer for the complete lines in     *)
(* the local buffer, fh for the lines read from the open file), the         *)
(* statement of run() it is at, and, as history, whether stop() has been    *)
(* called, how many times the callback has been invoked since, and         *)
(* whether run() has found _running cleared.                                *)

\* no thread has been constructed
NoRun ==
    [kind |-> NoThread, loop |-> FALSE, running |-> FALSE, port_open |-> FALSE,
     at |-> "none", fh |-> 0, buffer |-> 0, stopped |-> FALSE, after |-> 0,
     cleared |-> FALSE]

\* run() has been left: by its end, or by an exception of serial.read
Ended == {"done", "failed"}

\* FileTail.__init__ and Thread.start
FileTailInit(loop) ==
    [NoRun EXCEPT !.kind = "file", !.loop = loop, !.running = TRUE,
                  !.at = "while"]

\* SerialReader.__init__ and Thread.start
SerialReaderInit ==
    [NoRun EXCEPT !.kind = "serial", !.running = TRUE, !.port_open = TRUE,
                  !.at = "while"]

\* self._callback(line) is invoked
Invoked(r) == [r EXCEPT !.after = IF r.stopped THEN @ + 1 ELSE @]

\* a FileTail.run that goes on to the next line when _running is cleared
\* (a variant the program does not use)
FileTailRunNoBreak(r, n) ==
    CASE r.at = "while" ->
            IF r.running THEN [r EXCEPT !.at = "for", !.fh = 0]
            ELSE [r EXCEPT !.at = "done", !.cleared = TRUE]
      [] r.at = "for" ->
            IF r.fh < n THEN [r EXCEPT !.at = "test"]
            ELSE [r EXCEPT !.at = IF r.loop THEN "while" ELSE "done"]
      [] r.at = "test" ->
            IF r.running THEN [r EXCEPT !.at = "callback"]
            ELSE [r EXCEPT !.at = "callback", !.cleared = TRUE]
      [] r.at = "callback" ->
            [Invoked(r) EXCEPT !.at = "sleep", !.fh = @ + 1]
      [] r.at = "sleep" -> [r EXCEPT !.at = "for"]

\* FileTail.run, one statement, for a file of n lines
FileTailRun(r, n) ==
    CASE r.at = "while" ->
            IF r.running THEN [r EXCEPT !.at = "for", !.fh = 0]
            ELSE [r EXCEPT !.at = "done", !.cleared = TRUE]
      [] r.at = "for" ->
            IF r.fh < n THEN [r EXCEPT !.at = "test"]
            ELSE [r EXCEPT !.at = IF r.loop THEN "while" ELSE "done"]
      [] r.at = "test" ->
            IF r.running THEN [r EXCEPT !.at = "callback"]
            ELSE [r EXCEPT !.at = IF r.loop THEN "while" ELSE "done",
                           !.cleared = TRUE]
      [] r.at = "callback" ->
            [Invoked(r) EXCEPT !.at = "sleep", !.fh = @ + 1]
      [] r.at = "sleep" -> [r EXCEPT !.at = "for"]

\* FileTail.stop
FileTailStop(r) == [r EXCEPT !.running = FALSE, !.stopped = TRUE]

\* SerialReader.run, one statement; serial.read returns a chunk holding
\* chunk complete lines, or, on a closed port, raises when raises is TRUE
\* and returns nothing otherwise
SerialReaderRun(r, chunk, raises) ==
    CASE r.at = "while" ->
            [r EXCEPT !.at = IF r.running THEN "read" ELSE "done"]
      [] r.at = "read" ->
            IF ~r.port_open
            THEN [r EXCEPT !.at = IF raises THEN "failed" ELSE "while"]
            ELSE IF chunk = 0 THEN [r EXCEPT !.at = "while"]
            ELSE [r EXCEPT !.at = "split", !.buffer = @ + chunk]
      [] r.at = "split" ->
            IF r.buffer > 0 THEN [r EXCEPT !.at = "callback", !.buffer = @ - 1]
            ELSE [r EXCEPT !.at = "while"]
      [] r.at = "callback" -> [Invoked(r) EXCEPT !.at = "split"]

\* SerialReader.stop
SerialReaderStop(r) ==
    [r EXCEPT !.running = FALSE, !.port_open = FALSE, !.stopped = TRUE]

\* self._thread.stop()
ThreadStop(r) == IF r.kind = "file" THEN FileTailStop(r) ELSE SerialReaderStop(r)

\* the thread _build_thread constructs
Spawn(kind) ==
    IF kind = "file" THEN FileTailInit(TRUE)
    ELSE IF kind = "serial" THEN SerialReaderInit
    ELSE NoRun

---------------------------------------------------------------------------
(* The DataBus under concurrent callers, statement by statement.  A call   *)
(* is a frame: the method, the statement it is at, and its arguments; a    *)
(* thread's frames are its stack, a listener's call lying on top of the    *)
(* append that invoked the listener.                                        *)

\* the threads that call the bus: the source thread and the owning thread
Threads == {"source", "owner"}
\* threading.Lock: no thread holds it
Free == ""

\* an append that replaces meta before it takes the lock (a variant the
\* program does not use)
AppendMetaUnlocked ==
    <<"set_meta", "acquire", "add_record", "release", "notify", "returned">>

\* an append that invokes the listeners inside the with block (a variant
\* the program does not use)
AppendNotifyLocked ==
    <<"acquire", "set_meta", "add_record", "notify", "release", "returned">>

\* DataBus.append: with self._lock: self._meta = ...; self._records.append;
\* then the listeners; then the test of _persist_path
AppendStatements ==
    <<"acquire", "set_meta", "add_record", "release", "notify", "returned">>

\* the statements of a method
Statements(op) ==
    CASE op = "append" -> AppendStatements
      [] op = "reset" -> <<"acquire", "clear", "bump", "release">>
      [] op = "snapshot" -> <<"acquire", "read_records", "release">>
      [] op = "meta" -> <<"acquire", "read_meta", "release">>
      [] op = "generation" -> <<"acquire", "read_generation", "release">>

Frame(op, m, r) == [op |-> op, i |-> 1, m |-> m, r |-> r]

\* the innermost call of thread t in s, and the statement it is at
Top(s, t) == s.callers[t][Len(s.callers[t])]
AtStatement(s, t) == Statements(Top(s, t).op)[Top(s, t).i]

\* thread t has executed the statement it was at: the call goes on to its
\* next statement, or returns
Advance(s, t) ==
    LET f == Top(s, t)
        n == Len(s.callers[t])
    IN  IF f.i = Len(Statements(f.op))
        THEN [s EXCEPT !.callers[t] = SubSeq(@, 1, n - 1)]
        ELSE [s EXCEPT !.callers[t][n].i = @ + 1]

\* thread t executes the statement st of its call f; a listener invoked
\* by "notify" calls the bus with the frames in nested (none, or one)
Execute(s, t, f, st, nested) ==
        CASE st = "acquire" -> [s EXCEPT !.lock = t]
          [] st = "release" -> [s EXCEPT !.lock = Free]
          [] st = "set_meta" -> [s EXCEPT !.bus_meta = f.m]
          [] st = "add_record" ->
                [s EXCEPT !.records = DequeAppend(@, f.r, MaxLen),
                          !.stored_meta = f.m]
          [] st = "clear" -> [s EXCEPT !.records = <<>>]
          [] st = "bump" -> [s EXCEPT !.generation = @ + 1]
          [] st = "read_records" -> [s EXCEPT !.yielded = Snapshot(s)]
          [] st = "read_meta" -> [s EXCEPT !.yielded = <<s.bus_meta>>]
          [] st = "read_generation" -> [s EXCEPT !.yielded = <<s.generation>>]
          [] st = "notify" ->
                [s EXCEPT !.calls = @ \o Notify(s.listeners, f.m, f.r),
                          !.callers[t] = @ \o nested]
          [] st = "returned" -> s

---------------------------------------------------------------------------
(* The raw-log handle under two threads, statement by statement.  The      *)
(* source thread runs _handle_raw_line, and through feed_line and          *)
(* _handle_record update_export_meta; the owning thread runs                *)
(* update_export_meta (MainWindow.refresh, export_stem) and stop().  No     *)
(* statement of acquisition.py takes a lock.  A thread is at "idle", at     *)
(* "dead" (the source, after run() ended), or at the statement it executes  *)
(* next.                                                                    *)

NoRawIo ==
    [at |-> [t \in Threads |-> "idle"], arg |-> [t \in Threads |-> EmptyDict],
     target |-> [t \in Threads |-> NoPath], closed |-> FALSE,
     running |-> FALSE, misuse |-> FALSE]

\* thread t goes to statement p
Goto(s, t, p) == [s EXCEPT !.rawio.at[t] = p]

\* the statement uses self._raw_log, which is None or names a closed file:
\* AttributeError or ValueError
Unusable(s) == s.raw_log = NoPath \/ s.rawio.closed

\* where thread t goes when update_export_meta or _close_raw_log returns,
\* and when an exception leaves its call: it ends the source thread, whose
\* run() catches nothing
Returns(t) == "idle"
Escapes(t) == IF t = "source" THEN "dead" ELSE "idle"

\* AcquisitionController._handle_raw_line, one statement; record tells
\* whether feed_line yields a record, which carries meta m
HandleRawLineRun(s, t, p, record, m) ==
    CASE p = "test" -> Goto(s, t, IF s.raw_log # NoPath THEN "write" ELSE "feed")
      [] p \in {"write", "newline", "flush"} ->
            IF Unusable(s)
            THEN Goto([Emit(s, "Raw data logging failed") EXCEPT
                          !.rawio.misuse = TRUE], t, "x_flush")
            ELSE Goto(s, t, CASE p = "write" -> "newline"
                              [] p = "newline" -> "flush"
                              [] p = "flush" -> "feed")
      [] p = "feed" ->
            IF record /\ m # EmptyDict /\ s.config.persist_csv
            THEN Goto(s, t, "u_enter") ELSE Goto(s, t, "idle")

\* AcquisitionController._close_raw_log, one statement, up to
\* self._raw_log = None; prefix is "x_" in _handle_raw_line's except
\* branch and "c_" in stop()
CloseRawLogRun(s, t, p, after) ==
    CASE p \in {"x_flush", "c_flush"} ->
            IF s.raw_log = NoPath THEN Goto(s, t, after)
            ELSE IF s.rawio.closed
            THEN [Goto(s, t, Escapes(t)) EXCEPT !.rawio.misuse = TRUE,
                                                 !.exc = "ValueError"]
            ELSE Goto(s, t, IF p = "x_flush" THEN "x_close" ELSE "c_close")
      [] p \in {"x_close", "c_close"} ->
            IF s.raw_log = NoPath
            THEN [Goto(s, t, Escapes(t)) EXCEPT !.rawio.misuse = TRUE,
                                                 !.exc = "AttributeError"]
            ELSE Goto([s EXCEPT !.rawio.closed = TRUE], t,
                      IF p = "x_close" THEN "x_none" ELSE "c_none")
      [] p \in {"x_none", "c_none"} ->
            Goto([s EXCEPT !.raw_log = NoPath, !.rawio.closed = FALSE], t, after)

\* AcquisitionController.update_export_meta, one statement; the argument
\* and the local target are the thread's own
UpdateExportMetaRun(s, t, p, e) ==
    LET new_stem == BuildExportStem(s.rawio.arg[t])
        target == FilePath(s.raw_log_dir, new_stem, s.raw_log_suffix)
    IN  CASE p = "u_enter" ->
                IF s.raw_log_dir = NoDir THEN Goto(s, t, Returns(t))
                ELSE IF new_stem = <<>> \/ new_stem = s.export_stem
                THEN Goto(s, t, Returns(t))
                ELSE IF s.raw_log = NoPath \/ s.raw_log_path = target
                THEN Goto([s EXCEPT !.export_stem = new_stem,
                                    !.raw_log_path = target], t, Returns(t))
                ELSE Goto([s EXCEPT !.export_stem = new_stem,
                                    !.rawio.target[t] = target], t, "u_flush")
          [] p = "u_flush" ->
                Goto([s EXCEPT !.rawio.misuse = @ \/ Unusable(s)], t, "u_close")
          [] p = "u_close" ->
                IF s.raw_log = NoPath
                THEN [Goto(s, t, Escapes(t)) EXCEPT !.rawio.misuse = TRUE,
                                                     !.exc = "AttributeError"]
                ELSE Goto([s EXCEPT !.rawio.closed = TRUE], t, "u_none")
          [] p = "u_none" ->
                Goto([s EXCEPT !.raw_log = NoPath, !.rawio.closed = FALSE],
                     t, "u_rename")
          [] p = "u_rename" -> Goto(s, t, "u_open")
          [] p = "u_open" ->
                IF e.reopen
                THEN Goto([s EXCEPT !.raw_log = s.rawio.target[t],
                                    !.raw_log_path = s.rawio.target[t],
                                    !.rawio.closed = FALSE], t, Returns(t))
                ELSE Goto([Emit(s, "Raw data logging unavailable") EXCEPT
                              !.raw_log = NoPath, !.raw_log_path = NoPath,
                              !.rawio.closed = FALSE], t, Returns(t))

\* the statement thread t is at
RawIoRun(s, t, record, e) ==
    LET p == s.rawio.at[t]
    IN  CASE p \in {"test", "write", "newline", "flush", "feed"} ->
                LET u == HandleRawLineRun(s, t, p, record, MetaStream)
                IN  IF u.rawio.at[t] = "u_enter"
                    THEN [u EXCEPT !.rawio.arg[t] = MetaStream] ELSE u
          [] p \in {"x_flush", "x_close", "x_none"} ->
                CloseRawLogRun(s, t, p, "feed")
          [] p \in {"c_flush", "c_close", "c_none"} ->
                CloseRawLogRun(s, t, p, "idle")
          [] p \in {"u_enter", "u_flush", "u_close", "u_none", "u_rename",
                    "u_open"} ->
                UpdateExportMetaRun(s, t, p, e)

---------------------------------------------------------------------------
(* The state record, and the actions. *)

\* the state a handler starts in: the variables, with the observations of
\* the previous operation cleared
St ==
    [records |-> records, bus_meta |-> bus_meta, generation |-> generation,
     listeners |-> listeners, seen_generation |-> seen_generation,
     phase |-> phase, meta_hdr |-> meta_hdr, data_hdr |-> data_hdr, meta |-> meta,
     config |-> config, thread |-> thread, raw_log |-> raw_log,
     raw_log_path |-> raw_log_path, raw_log_dir |-> raw_log_dir,
     raw_log_suffix |-> raw_log_suffix, export_stem |-> export_stem,
     fs |-> fs, raw_buf |-> raw_buf,
     calls |-> <<>>, upd_args |-> <<>>, fsOps |-> <<>>, errors |-> <<>>,
     yielded |-> <<>>, status |-> <<>>, changed |-> <<>>, ret |-> "",
     applied |-> NoConfig,
     stale |-> stale,
     sinceReset |-> sinceReset, wiped |-> wiped, unsubscribed |-> unsubscribed,
     received |-> received, openBase |-> openBase, concrete |-> concrete,
     log_io_failed |-> log_io_failed,
     events |-> <<>>, handled |-> "", fed |-> fed, trace |-> trace,
     word |-> word, labels |-> labels, detail |-> detail,
     run |-> run,
     lock |-> lock, callers |-> callers, stored_meta |-> stored_meta,
     rawio |-> rawio,
     exc |-> ""]

\* the handler op (called with listener fn, "" when it takes none) ends in t
Commit(t, op, fn) ==
    /\ records' = t.records /\ bus_meta' = t.bus_meta
    /\ generation' = t.generation /\ listeners' = t.listeners
    /\ seen_generation' = t.seen_generation
    /\ phase' = t.phase /\ meta_hdr' = t.meta_hdr /\ data_hdr' = t.data_hdr
    /\ meta' = t.meta
    /\ config' = t.config /\ thread' = t.thread /\ raw_log' = t.raw_log
    /\ raw_log_path' = t.raw_log_path /\ raw_log_dir' = t.raw_log_dir
    /\ raw_log_suffix' = t.raw_log_suffix /\ export_stem' = t.export_stem
    /\ fs' = t.fs /\ raw_buf' = t.raw_buf
    /\ calls' = t.calls /\ upd_args' = t.upd_args /\ fsOps' = t.fsOps
    /\ errors' = t.errors /\ yielded' = t.yielded
    /\ status' = t.status /\ changed' = t.changed
    /\ raised' = t.exc /\ ret' = t.ret /\ applied' = t.applied
    /\ stale' = t.stale
    /\ sinceReset' = t.sinceReset /\ wiped' = t.wiped
    /\ unsubscribed' = t.unsubscribed
    /\ received' = t.received /\ openBase' = t.openBase
    /\ concrete' = t.concrete /\ log_io_failed' = t.log_io_failed
    /\ events' = t.events /\ handled' = t.handled
    /\ fed' = t.fed /\ trace' = t.trace
    /\ word' = t.word /\ labels' = t.labels /\ detail' = t.detail
    /\ run' = t.run
    /\ lock' = t.lock /\ callers' = t.callers /\ stored_meta' = t.stored_meta
    /\ rawio' = t.rawio
    /\ lastOp' = op /\ lastFn' = fn
    /\ pre_len' = Len(records) /\ pre_stem' = export_stem

\* DataBus.__init__, Parser.__init__ and AcquisitionController.__init__
\* with configuration c; the log directories hold no file
InitWith(c) ==
    /\ records = <<>> /\ bus_meta = EmptyDict /\ generation = 0
    /\ listeners = <<>> /\ seen_generation = 0
    /\ phase = "find_header" /\ meta_hdr = <<>> /\ data_hdr = <<>>
    /\ meta = EmptyDict
    /\ config = c /\ thread = NoThread /\ raw_log = NoPath
    /\ raw_log_path = NoPath /\ raw_log_dir = NoDir /\ raw_log_suffix = ".tsv"
    /\ export_stem = NoStem
    /\ fs = [p \in {} |-> <<>>] /\ raw_buf = <<>>
    /\ pc = "idle" /\ cur = <<>> /\ pos = 0
    /\ lastOp = "init" /\ lastFn = ""
    /\ calls = <<>> /\ upd_args = <<>> /\ fsOps = <<>> /\ errors = <<>>
    /\ yielded = <<>>
    /\ status = <<>> /\ changed = <<>> /\ raised = "" /\ ret = "" /\ stale = 0
    /\ applied = NoConfig
    /\ sinceReset = <<>> /\ wiped = FALSE /\ unsubscribed = {}
    /\ received = <<>> /\ openBase = <<>> /\ concrete = NoStem
    /\ log_io_failed = FALSE
    /\ events = <<>> /\ handled = "" /\ fed = <<>> /\ trace = <<>>
    /\ word = NoneVal /\ labels = EmptyDict /\ detail = EmptyDetail
    /\ run = NoRun
    /\ lock = Free /\ callers = [t \in Threads |-> <<>>] /\ stored_meta = EmptyDict
    /\ rawio = NoRawIo
    /\ pre_len = 0 /\ pre_stem = NoStem /\ nlines = 0 /\ nops = 0

Listeners == {"f", "g"}

\* the lines a source delivers
LMetaHdr == <<"P07", TAB, "P70">>
LMetaVal == <<"WTC3206", TAB, "PMNN4809A">>
LDataHdr == <<"P06", TAB, "P40">>
LData1 == <<"1", TAB, "13030">>
LData2 == <<"2", TAB, "13030">>
LBlank == <<>>
LSpaces == <<" ", TAB>>
\* the content of sample.txt, which a FileTail reads in order, from the
\* first line again after the last (loop=True)
SampleLines == <<LMetaHdr, LMetaVal, LDataHdr, LData1, LBlank, LData2>>
\* what the serial device sends from the moment the port is opened, in
\* the middle of a data block; the stream repeats
SerialLines == <<LData1, LDataHdr, LData1, LDataHdr, LData2, LSpaces>>

\* the (meta, record) pairs the callers of SpecBus append
BusMetas == {EmptyDict, MetaStream}
BusRecords == {BuildRecord(SplitWs(LDataHdr), SplitWs(LData1)),
               BuildRecord(SplitWs(LDataHdr), SplitWs(LData2))}

Env(R, O, O2, RO, W) ==
    [ren : R, open : O, open2 : O2, reopen : RO, write : W, join : {TRUE}]
Yes == {TRUE}

---------------------------------------------------------------------------
(* SpecBus: the DataBus alone. *)

ctrlSide == <<pc, cur, pos, nlines, nops>>

BusAppendOp(m, r) ==
    /\ Len(sinceReset) < MaxAppends
    /\ Commit(DataBusAppend(St, m, r), "append", "")
    /\ UNCHANGED ctrlSide

BusResetOp ==
    /\ generation < MaxGen
    /\ Commit(DataBusReset(St), "reset", "")
    /\ UNCHANGED ctrlSide

BusSnapshotOp ==
    /\ Commit([St EXCEPT !.yielded = Snapshot(St)], "snapshot", "")
    /\ UNCHANGED ctrlSide

BusMetaOp ==
    /\ Commit(St, "meta", "")
    /\ UNCHANGED ctrlSide

BusSubscribeOp(fn) ==
    /\ Len(listeners) < MaxListeners
    /\ Commit(DataBusSubscribe(St, fn), "subscribe", fn)
    /\ UNCHANGED ctrlSide

BusUnsubscribeOp(fn) ==
    /\ Commit(DataBusUnsubscribe(St, fn), "unsubscribe", fn)
    /\ UNCHANGED ctrlSide

BusRefreshOp ==
    /\ Commit(Refresh(St), "refresh", "")
    /\ UNCHANGED ctrlSide

InitBus == InitWith(Cfg("", FALSE, "", FALSE, DefaultPersistPath))

NextBus ==
    \/ \E m \in BusMetas, r \in BusRecords : BusAppendOp(m, r)
    \/ BusResetOp
    \/ BusSnapshotOp
    \/ BusMetaOp
    \/ \E fn \in Listeners : BusSubscribeOp(fn)
    \/ \E fn \in Listeners : BusUnsubscribeOp(fn)
    \/ BusRefreshOp

SpecBus == InitBus /\ [][NextBus]_vars

---------------------------------------------------------------------------
(* Spec: the AcquisitionController.  The source thread delivers a line in  *)
(* two steps, the write to the raw log (Deliver) and feed_line (Feed); the *)
(* owning thread's calls are taken between two lines.                      *)

\* FileTail.run / SerialReader.run call self._callback(line):
\* _handle_raw_line up to feed_line
Deliver(line) ==
    /\ pc = "idle" /\ nlines < MaxLines
    /\ \E e \in Env(BOOLEAN, Yes, Yes, Yes, BOOLEAN) :
           Commit(HandleRawLineWrite(St, line, e), "write", "")
    /\ pc' = "feed" /\ cur' = line /\ nlines' = nlines + 1
    /\ UNCHANGED nops

\* FileTail.run: the next line of the file, rstrip("\n")
FileTailLine ==
    /\ thread = "file"
    /\ Deliver(SampleLines[(pos % Len(SampleLines)) + 1])
    /\ pos' = pos + 1

\* SerialReader.run: the next line split off the buffer
SerialLine ==
    /\ thread = "serial"
    /\ Deliver(SerialLines[(pos % Len(SerialLines)) + 1])
    /\ pos' = pos + 1

\* _handle_raw_line: self._parser.feed_line(raw)
Feed ==
    /\ pc = "feed"
    /\ \E e \in Env(BOOLEAN, Yes, Yes, BOOLEAN, Yes) :
           Commit(FeedLine(St, cur, e), "feed", "")
    /\ pc' = "idle"
    /\ UNCHANGED <<cur, pos, nlines, nops>>

OwnerCall == pc = "idle" /\ nops < MaxOps
OwnerDone == pc' = pc /\ cur' = cur /\ nlines' = nlines /\ nops' = nops + 1
\* a source that start or apply_config builds is a new thread: a new
\* FileTail reads its file from the first line
Restarted == pos' = 0

DoStart ==
    /\ OwnerCall
    /\ \E e \in Env(BOOLEAN, BOOLEAN, Yes, Yes, Yes) : Commit(Start(St, e), "start", "")
    /\ OwnerDone /\ Restarted

DoStop ==
    /\ OwnerCall
    /\ \E e \in Env(BOOLEAN, Yes, Yes, Yes, Yes) : Commit(Stop(St, e), "stop", "")
    /\ OwnerDone /\ pos' = pos

DoApplyConfig(c) ==
    /\ OwnerCall
    /\ \E e \in Env(BOOLEAN, BOOLEAN, BOOLEAN, Yes, Yes) :
           Commit(ApplyConfig(St, c, e), "apply_config", "")
    /\ OwnerDone /\ Restarted

\* MainWindow.refresh calls update_export_meta(databus.meta()); any
\* MetaBlock of OwnerMetas stands for what a caller may pass
DoUpdateExportMeta(m) ==
    /\ OwnerCall
    /\ \E e \in Env(BOOLEAN, Yes, Yes, BOOLEAN, Yes) :
           Commit(UpdateExportMeta(St, m, e), "update_export_meta", "")
    /\ OwnerDone /\ pos' = pos

DoExportStem(m, no_meta) ==
    /\ OwnerCall
    /\ \E e \in Env(BOOLEAN, Yes, Yes, BOOLEAN, Yes) :
           Commit(ExportStem(St, m, no_meta, e), "export_stem", "")
    /\ OwnerDone /\ pos' = pos

\* the consumers subscribe to the bus before the controller is started
Setup == pc = "idle" /\ nlines = 0 /\ lastOp \in {"init", "subscribe", "unsubscribe"}

DoSubscribe(fn) ==
    /\ Setup /\ Len(listeners) < MaxListeners
    /\ Commit(DataBusSubscribe(St, fn), "subscribe", fn)
    /\ UNCHANGED <<pc, cur, pos, nlines, nops>>

DoUnsubscribe(fn) ==
    /\ Setup /\ fn \in Range(listeners)
    /\ Commit(DataBusUnsubscribe(St, fn), "unsubscribe", fn)
    /\ UNCHANGED <<pc, cur, pos, nlines, nops>>

Init == \E c \in Configs : InitWith(c)

Next ==
    \/ FileTailLine
    \/ SerialLine
    \/ Feed
    \/ DoStart
    \/ DoStop
    \/ \E c \in Configs : DoApplyConfig(c)
    \/ \E m \in OwnerMetas : DoUpdateExportMeta(m)
    \/ \E m \in OwnerMetas : DoExportStem(m, FALSE)
    \/ DoExportStem(EmptyDict, TRUE)

Spec == Init /\ [][Next]_vars

\* SpecListeners: the controller with consumers subscribed to its bus
NextListeners ==
    \/ \E fn \in Listeners : DoSubscribe(fn)
    \/ \E fn \in Listeners : DoUnsubscribe(fn)
    \/ FileTailLine
    \/ SerialLine
    \/ Feed
    \/ DoStart
    \/ DoStop

SpecListeners == Init /\ [][NextListeners]_vars

---------------------------------------------------------------------------
(* SpecParser: the Parser fed directly, as test_parser.py feeds it, with  *)
(* the callbacks the controller registers.                                 *)

\* lines as a device sends them: headers, values, blank and whitespace-only
\* lines, values with control characters attached, and lines that mix
\* numeric and textual tokens
LDataHdr3 == <<"P05", " ", "P06", " ", "P40">>
LData3 == <<"31248", " ", "1", " ", "13030">>
LCtl == <<STX, "31248", " ", "1", " ", "13030", ETX>>
LOneText2 == <<"-1.5", " ", "x">>
LOneText3 == <<"1", " ", "x", " ", "2">>
LOneText4 == <<" ", "1", TAB, "x", " ", " ", "1e3", " ", "13030", " ">>
\* the meta block of test_parser.py's SAMPLE
LMetaHdr3 == <<"P04", " ", "P07", " ", "P70">>
LMetaVal3 == <<"CC_CV", " ", "WTC3206", " ", "PMNN4809A">>
\* a values line whose third token is an integer of 310 digits
LHuge == <<"31248", " ", "1", " ", "9..9(310 digits)">>
ParserLines ==
    {LMetaHdr, LMetaVal, LDataHdr3, LData3, LCtl, LBlank, LSpaces,
     LOneText2, LOneText3, LOneText4, LMetaHdr3, LMetaVal3, LHuge}

\* Parser.feed_line(line)
ParserFeedLine(line) ==
    /\ Len(fed) < MaxFed
    /\ \E e \in Env(Yes, Yes, Yes, Yes, Yes) :
           LET t == FeedLine(St, line, e)
           IN  Commit([t EXCEPT !.fed = Append(@, line),
                                !.trace = @ \o t.events],
                      "feed_line", "")
    /\ UNCHANGED <<pc, cur, pos, nlines, nops>>

InitParser == InitWith(Cfg("", FALSE, "", FALSE, DefaultPersistPath))

NextParser == \E line \in ParserLines : ParserFeedLine(line)

SpecParser == InitParser /\ [][NextParser]_vars

---------------------------------------------------------------------------
(* SpecReset: the Parser fed directly by a user that also calls reset()    *)
(* between lines.                                                           *)

ResetLines == {LMetaHdr, LMetaVal, LDataHdr3, LData3, LBlank, LOneText2}

\* Parser.reset(); nops counts the calls
ParserResetOp ==
    /\ nops < MaxOps
    /\ Commit(ParserReset(St), "reset", "")
    /\ nops' = nops + 1
    /\ UNCHANGED <<pc, cur, pos, nlines>>

NextReset ==
    \/ \E line \in ResetLines : ParserFeedLine(line)
    \/ ParserResetOp

SpecReset == InitParser /\ [][NextReset]_vars

---------------------------------------------------------------------------
(* SpecStatus: decode_status called with the values the window passes    *)
(* (a record's P05, or None when the record has none) and with the ints    *)
(* and strings of test_status.py.                                          *)

\* status words with one fixed field set to each of its codes
FieldWords ==
    {c * 2^0 : c \in 0..7} \cup {c * 2^3 : c \in 0..7} \cup {c * 2^6 : c \in 0..3}
    \cup {c * 2^8 : c \in 0..3} \cup {c * 2^11 : c \in 0..7}
    \cup {c * 2^19 : c \in 0..7}
\* status words of flag bits: none, a peripheral bit, an end-of-charge
\* bit, both, an undecoded bit, every bit from 14 to 27
FlagWords ==
    {0, 2^14, 2^18, 2^22, 2^25, 2^14 + 2^22, 2^10, 2^26, 2^28 - 2^14}
StatusWords == {f + g : f \in FieldWords, g \in FlagWords} \cup {2^28 - 1}

\* record.get("P05") and the arguments of test_status.py
StatusInputs ==
    {IntVal(w) : w \in StatusWords}
    \cup {IntVal(-1), IntVal(-3), NoneVal,
          ScaledVal(37, -1), ScaledVal(-37, -1), ScaledVal(5, 0),
          FloatOf(Chars("1e3")), FloatOf(Chars("1e999")),
          StrVal("invalid"), StrVal("x"), StrVal("5"), StrVal("<STX>31248")}

\* config.status_bits
BitLabels == {EmptyDict, 10 :> "Reserve" @@ 14 :> "Eingang" @@ 26 :> "Zusatz"}

\* decode_status(value, bit_labels)
CallDecodeStatus(value, bit_labels) ==
    /\ Commit([St EXCEPT !.word = value, !.labels = bit_labels,
                         !.detail = DecodeStatus(value, bit_labels)],
              "decode_status", "")
    /\ UNCHANGED <<pc, cur, pos, nlines, nops>>

InitStatus == InitWith(Cfg("", FALSE, "", FALSE, DefaultPersistPath))

NextStatus ==
    \E value \in StatusInputs, bit_labels \in BitLabels :
        CallDecodeStatus(value, bit_labels)

SpecStatus == InitStatus /\ [][NextStatus]_vars

---------------------------------------------------------------------------
(* SpecThreads: the life of the source threads.  stop() signals the thread *)
(* and waits for it with join(timeout=1.0); when the wait times out the    *)
(* thread is still alive, and the controller forgets it all the same.      *)

\* the environment of a call in which only the join may time out
EnvJoin(J) ==
    [ren : {TRUE}, open : {TRUE}, open2 : {TRUE}, reopen : {TRUE},
     write : {TRUE}, join : J]

\* the source threads alive: the one the controller records, and the
\* forgotten ones
SourceThreads == (IF thread # NoThread THEN 1 ELSE 0) + stale

JoinStart ==
    /\ OwnerCall
    /\ \E e \in EnvJoin(BOOLEAN) : Commit(Start(St, e), "start", "")
    /\ OwnerDone /\ Restarted

JoinStop ==
    /\ OwnerCall
    /\ \E e \in EnvJoin(BOOLEAN) : Commit(Stop(St, e), "stop", "")
    /\ OwnerDone /\ pos' = pos

JoinApplyConfig(c) ==
    /\ OwnerCall
    /\ \E e \in EnvJoin(BOOLEAN) : Commit(ApplyConfig(St, c, e), "apply_config", "")
    /\ OwnerDone /\ Restarted

\* SerialReader.run: a forgotten reader goes on through the lines of its
\* buffer, calling self._callback for each (the inner loop does not look
\* at _running)
StaleCallback ==
    /\ stale > 0 /\ pc = "idle" /\ nlines < MaxLines
    /\ \E e \in EnvJoin({TRUE}) :
           Commit(FeedLine(HandleRawLineWrite(St, LData2, e), LData2, e),
                  "stale_callback", "")
    /\ nlines' = nlines + 1
    /\ UNCHANGED <<pc, cur, pos, nops>>

\* a forgotten thread leaves run()
StaleExit ==
    /\ stale > 0 /\ pc = "idle"
    /\ Commit([St EXCEPT !.stale = @ - 1], "stale_exit", "")
    /\ UNCHANGED <<pc, cur, pos, nlines, nops>>

NextThreads ==
    \/ JoinStart
    \/ JoinStop
    \/ \E c \in Configs : JoinApplyConfig(c)
    \/ FileTailLine
    \/ SerialLine
    \/ Feed
    \/ StaleCallback
    \/ StaleExit

SpecThreads == Init /\ [][NextThreads]_vars

---------------------------------------------------------------------------
(* SpecRun: one source thread followed through the statements of run(),    *)
(* beside the owning thread's start() and stop().  stop() is taken in two  *)
(* steps, up to the join and from the join's return, since the source      *)
(* thread runs while the owner waits.  The line callback is taken to       *)
(* return.  The thread is scheduled fairly, and the join returns, at the   *)
(* latest when its timeout has passed.                                      *)

RunConfigs ==
    { Cfg("sample.txt", FALSE, "", FALSE, DefaultPersistPath),
      Cfg("", TRUE, "COM1", FALSE, DefaultPersistPath) }

\* the thread goes from r to t; when it leaves run() after the controller
\* has forgotten it, it is no longer one of the forgotten live threads
Ran(s, t) ==
    [s EXCEPT !.run = t,
              !.stale = IF t.at \in Ended /\ s.thread = NoThread /\ @ > 0
                        THEN @ - 1 ELSE @]

\* AcquisitionController.start, when no earlier thread is still alive
RunStart ==
    /\ pc = "idle" /\ thread = NoThread /\ run.at \in {"none"} \cup Ended
    /\ nops < MaxOps
    /\ \E e \in EnvJoin({TRUE}) :
           LET t == Start(St, e)
           IN  Commit([t EXCEPT !.run = Spawn(t.thread)], "start", "")
    /\ pc' = pc /\ pos' = 0 /\ nops' = nops + 1
    /\ UNCHANGED <<cur, nlines>>

\* AcquisitionController.stop up to self._thread.join(timeout=1.0)
RunStop ==
    /\ pc = "idle" /\ thread # NoThread
    /\ Commit([St EXCEPT !.run = ThreadStop(@)], "thread_stop", "")
    /\ pc' = "join"
    /\ UNCHANGED <<cur, pos, nlines, nops>>

\* AcquisitionController.stop from the return of join: the thread has
\* ended, or the timeout has passed
RunJoin ==
    /\ pc = "join"
    /\ \E e \in EnvJoin({run.at \in Ended}) : Commit(Stop(St, e), "stop", "")
    /\ pc' = "idle"
    /\ UNCHANGED <<cur, pos, nlines, nops>>

\* a FileTail constructed and started by its user, as app.py does, with
\* either value of loop
TailStart(loop) ==
    /\ pc = "idle" /\ thread = NoThread /\ run.at \in {"none"} \cup Ended
    /\ nops < MaxOps
    /\ Commit([St EXCEPT !.run = FileTailInit(loop)], "tail_start", "")
    /\ nops' = nops + 1
    /\ UNCHANGED <<pc, cur, pos, nlines>>

\* FileTail.stop called by the user of such a FileTail
TailStop ==
    /\ pc = "idle" /\ thread = NoThread /\ stale = 0
    /\ run.kind = "file" /\ run.at \notin {"none"} \cup Ended /\ ~run.stopped
    /\ Commit([St EXCEPT !.run = FileTailStop(@)], "tail_stop", "")
    /\ UNCHANGED <<pc, cur, pos, nlines, nops>>

\* the lines iterating over sample.txt yields: each ends with its newline
SampleFile == [i \in 1..Len(SampleLines) |-> Append(SampleLines[i], "\n")]

\* line.rstrip("\n")
RECURSIVE RstripNewline(_)
RstripNewline(line) ==
    IF line # <<>> /\ line[Len(line)] = "\n"
    THEN RstripNewline(SubSeq(line, 1, Len(line) - 1))
    ELSE line

\* FileTail.run: the next statement
FileTailStep ==
    /\ run.kind = "file" /\ run.at \notin Ended
    /\ Commit(Ran(St, FileTailRun(run, Len(SampleFile))), "run", "")
    /\ cur' = IF run.at = "callback" THEN RstripNewline(SampleFile[run.fh + 1])
              ELSE cur
    /\ UNCHANGED <<pc, pos, nlines, nops>>

\* SerialReader.run: the next statement
SerialReaderStep ==
    /\ run.kind = "serial" /\ run.at \notin Ended
    /\ \E chunk \in 0..MaxChunk, raises \in BOOLEAN :
           Commit(Ran(St, SerialReaderRun(run, chunk, raises)), "run", "")
    /\ cur' = IF run.at = "callback" THEN SerialLines[pos + 1] ELSE cur
    /\ pos' = IF run.at = "callback" THEN (pos + 1) % Len(SerialLines) ELSE pos
    /\ UNCHANGED <<pc, nlines, nops>>

InitRun == \E c \in RunConfigs : InitWith(c)

NextRun ==
    \/ RunStart
    \/ \E loop \in BOOLEAN : TailStart(loop)
    \/ TailStop
    \/ RunStop
    \/ RunJoin
    \/ FileTailStep
    \/ SerialReaderStep

SpecRun ==
    /\ InitRun /\ [][NextRun]_vars
    /\ WF_vars(FileTailStep) /\ WF_vars(SerialReaderStep) /\ WF_vars(RunJoin)

---------------------------------------------------------------------------
(* SpecLock: two threads call append, reset, snapshot, meta and generation *)
(* of one DataBus, each call taken statement by statement; a listener may  *)
(* call the bus from inside its callback.                                   *)

\* the (meta, record) pairs appended
BusPairs ==
    { <<MetaStream, BuildRecord(SplitWs(LDataHdr), SplitWs(LData1))>>,
      <<MetaOther, BuildRecord(SplitWs(LDataHdr), SplitWs(LData2))>> }
BusMethods == {"append", "reset", "snapshot", "meta", "generation"}

\* a listener is subscribed before the threads start
LockSubscribe ==
    /\ listeners = <<>> /\ nops = 0
    /\ Commit(DataBusSubscribe(St, "f"), "subscribe", "f")
    /\ UNCHANGED ctrlSide

\* thread t calls a method of the bus
LockCall(t, op, pair) ==
    /\ callers[t] = <<>> /\ nops < MaxCalls
    /\ op = "reset" => generation < MaxGen
    /\ Commit([St EXCEPT !.callers[t] = <<Frame(op, pair[1], pair[2])>>],
              "call", "")
    /\ nops' = nops + 1
    /\ UNCHANGED <<pc, cur, pos, nlines>>

\* the frames a listener pushes: it calls one method of the bus, or none
ListenerCalls(st, depth) ==
    IF st = "notify" /\ depth = 1 /\ listeners # <<>> /\ nops < MaxCalls
    THEN {<<>>} \cup {<<Frame(op, pair[1], pair[2])>> :
                         op \in BusMethods, pair \in BusPairs}
    ELSE {<<>>}

\* thread t executes the next statement of its innermost call; acquire
\* waits for the lock
LockStep(t) ==
    /\ callers[t] # <<>>
    /\ AtStatement(St, t) = "acquire" => lock = Free
    /\ \E nested \in ListenerCalls(AtStatement(St, t), Len(callers[t])) :
          /\ nested # <<>> /\ nested[1].op = "reset" => generation < MaxGen
          /\ Commit(Execute(Advance(St, t), t, Top(St, t), AtStatement(St, t), nested),
                    AtStatement(St, t), "")
          /\ nops' = nops + Len(nested)
    /\ UNCHANGED <<pc, cur, pos, nlines>>

InitLock == InitWith(Cfg("", FALSE, "", FALSE, DefaultPersistPath))

NextLock ==
    \/ LockSubscribe
    \/ \E t \in Threads, op \in BusMethods, pair \in BusPairs : LockCall(t, op, pair)
    \/ \E t \in Threads : LockStep(t)

SpecLock == InitLock /\ [][NextLock]_vars

---------------------------------------------------------------------------
(* SpecHandle: the source thread's line callback and the owning thread's   *)
(* update_export_meta and stop(), interleaved statement by statement.       *)

HandleConfig == Cfg("sample.txt", FALSE, "", TRUE, DirPath("raw"))

\* the source thread has left run(), or will before its next callback
SourceEnded ==
    \/ rawio.at["source"] = "dead"
    \/ rawio.at["source"] = "idle" /\ ~rawio.running

\* AcquisitionController.start, when no earlier thread is still alive
HandleStart ==
    /\ rawio.at["owner"] = "idle" /\ thread = NoThread /\ SourceEnded
    /\ nops < MaxOps
    /\ \E e \in EnvJoin({TRUE}) :
           LET t == Start(St, e)
           IN  Commit([t EXCEPT !.rawio = [NoRawIo EXCEPT
                                              !.running = t.thread # NoThread,
                                              !.misuse = rawio.misuse]],
                      "start", "")
    /\ nops' = nops + 1
    /\ UNCHANGED <<pc, cur, pos, nlines>>

\* the source thread reads a line and invokes _handle_raw_line
SourceLine ==
    /\ rawio.at["source"] = "idle" /\ rawio.running
    /\ Commit(Goto(St, "source", "test"), "line", "")
    /\ UNCHANGED ctrlSide

\* the source thread executes its next statement
SourceStep ==
    /\ rawio.at["source"] \notin {"idle", "dead"}
    /\ \E record \in BOOLEAN, e \in EnvJoin({TRUE}) :
           Commit(RawIoRun(St, "source", record, e), rawio.at["source"], "")
    /\ UNCHANGED ctrlSide

\* the owning thread calls update_export_meta(m), as MainWindow.refresh and
\* export_stem do
OwnerUpdate(m) ==
    /\ rawio.at["owner"] = "idle"
    /\ Commit(Goto([St EXCEPT !.rawio.arg["owner"] = m], "owner", "u_enter"),
              "update_export_meta", "")
    /\ UNCHANGED ctrlSide

\* AcquisitionController.stop up to self._thread.join(timeout=1.0)
OwnerStop ==
    /\ rawio.at["owner"] = "idle" /\ thread # NoThread
    /\ Commit(Goto([St EXCEPT !.rawio.running = FALSE], "owner", "join"),
              "thread_stop", "")
    /\ UNCHANGED ctrlSide

\* join returns, the thread ended or the timeout passed; the controller
\* forgets the thread and enters _close_raw_log
OwnerJoin ==
    /\ rawio.at["owner"] = "join"
    /\ Commit(Goto([St EXCEPT !.thread = NoThread], "owner", "c_flush"),
              "join", "")
    /\ UNCHANGED ctrlSide

\* the owning thread executes its next statement
OwnerStep ==
    /\ rawio.at["owner"] \notin {"idle", "join"}
    /\ \E e \in EnvJoin({TRUE}) :
           Commit(RawIoRun(St, "owner", FALSE, e), rawio.at["owner"], "")
    /\ UNCHANGED ctrlSide

InitHandle == InitWith(HandleConfig)

NextHandle ==
    \/ HandleStart
    \/ SourceLine
    \/ SourceStep
    \/ \E m \in {MetaStream, MetaOther} : OwnerUpdate(m)
    \/ OwnerStop
    \/ OwnerJoin
    \/ OwnerStep

SpecHandle == InitHandle /\ [][NextHandle]_vars

---------------------------------------------------------------------------
(* Claims about the DataBus, checked under SpecBus. *)

\* C1: with maxlen = MaxLen, after any sequence of append and reset calls
\* snapshot() holds at most MaxLen records and equals, in insertion order,
\* the last min(MaxLen, k) records appended since the most recent reset,
\* k being the number of appends since that reset (sinceReset).
C1_BoundedFifo ==
    /\ Len(Snapshot(St)) <= MaxLen
    /\ Snapshot(St) = LastN(sinceReset, Min(MaxLen, Len(sinceReset)))

\* an append has evicted, after a reset
C1_Witness ==
    /\ lastOp = "append" /\ generation > 0
    /\ Len(sinceReset) > MaxLen /\ Len(records) = MaxLen

\* C2: a reset() step leaves snapshot() == [], generation() one above its
\* value before the call, and meta() unchanged.
C2_Reset ==
    [][lastOp' = "reset" =>
          /\ records' = <<>>
          /\ generation' = generation + 1
          /\ bus_meta' = bus_meta]_vars

\* a reset of a bus that was at capacity and held a non-empty meta
C2_Witness ==
    /\ lastOp = "reset" /\ pre_len = MaxLen
    /\ bus_meta # EmptyDict /\ records = <<>>

\* C3: generation() never decreases, changes only in a reset() step and
\* there by exactly one; so whenever the buffer was wiped since the
\* consumer last polled (wiped), generation() differs from the value the
\* consumer saw.
C3_Generation ==
    [][/\ generation' >= generation
       /\ (generation' # generation => lastOp' = "reset")
       /\ (lastOp' = "reset" => generation' = generation + 1)
       /\ (wiped' => generation' # seen_generation')]_vars

\* an append that evicts at capacity has left the generation alone while a
\* wipe is pending for the consumer
C3_Witness ==
    /\ lastOp = "append" /\ pre_len = MaxLen /\ wiped
    /\ generation = seen_generation + 1

\* C4: after unsubscribe(fn) has returned (and fn was not subscribed again:
\* fn \in unsubscribed) no later append invokes fn while the other
\* listeners are invoked; and an unsubscribe of a function that is not
\* subscribed changes nothing.
C4_Unsubscribe ==
    [][/\ lastOp' = "append" =>
            /\ \A fn \in unsubscribed : \A i \in 1..Len(calls') : calls'[i].fn # fn
            /\ \A fn \in Range(listeners) \ unsubscribed :
                   \E i \in 1..Len(calls') : calls'[i].fn = fn
       /\ (lastOp' = "unsubscribe" /\ lastFn' \notin Range(listeners)) =>
            listeners' = listeners]_vars

---------------------------------------------------------------------------
(* Claims about the delivery of records, checked under SpecListeners. *)

\* C5: a feed_line step yields at most one record; a yielded record is
\* appended exactly once, behind the records appended before it (reception
\* order), and each subscribed listener is invoked exactly once for that
\* append, with the (meta, record) pair passed to it; a line that yields
\* no record appends nothing and invokes no listener.
C5_StrictOrder ==
    [][lastOp' = "feed" =>
          /\ Len(yielded') <= 1
          /\ Len(yielded') = 1 =>
                /\ sinceReset' = Append(sinceReset, yielded'[1])
                /\ records' # <<>> /\ records'[Len(records')] = yielded'[1]
                /\ \A i \in 1..Len(calls') :
                       /\ calls'[i].fn \in Range(listeners)
                       /\ calls'[i].meta = meta /\ calls'[i].record = yielded'[1]
                /\ \A fn \in Range(listeners) :
                       Cardinality({i \in 1..Len(calls') : calls'[i].fn = fn}) = 1
          /\ Len(yielded') = 0 =>
                /\ calls' = <<>>
                /\ sinceReset' \in {sinceReset, <<>>}]_vars

---------------------------------------------------------------------------
(* Claims about the raw log, checked under Spec. *)

\* C6: while a raw-log handle is open nothing is left unflushed, and the
\* lines of the log file are the lines the file held when it was opened
\* followed, one for one and in order, by the raw lines received since
\* (whatever their parsing yields); in particular the line about to be fed
\* to the Parser is already the last line of the file.
C6_RawLogMatchesStream ==
    raw_log # NoPath =>
        /\ raw_buf = <<>>
        /\ raw_log \in DOMAIN fs
        /\ Splitlines(fs[raw_log]) =
               Splitlines(openBase) \o [i \in 1..Len(received) |-> LineOf(received[i])]
        /\ pc = "feed" =>
               /\ received # <<>>
               /\ received[Len(received)] = cur

\* a blank line, which yields nothing, is on disk before it is fed, in a
\* log that was renamed after its first lines were written
C6_Witness ==
    /\ pc = "feed" /\ cur = LBlank /\ raw_log # NoPath
    /\ Len(received) = 5 /\ openBase = <<>>
    /\ raw_log_path.stem = BuildExportStem(MetaStream)

\* C7: a step in which update_export_meta renamed and reopened the log
\* loses no log data: the file named by raw_log_path() holds what the log
\* held before the rename, followed by what was received later; nothing is
\* left under the old name; and no other log file has lost its content.
C7_RenameKeepsData ==
    [][(/\ lastOp' \in {"feed", "update_export_meta", "export_stem"}
        /\ "rename" \in Range(fsOps') /\ raw_log' # NoPath) =>
          /\ raw_log_path' \in DOMAIN fs'
          /\ fs'[raw_log_path'] = fs[raw_log_path]
          /\ Splitlines(fs'[raw_log_path']) =
                 Splitlines(openBase') \o
                 [i \in 1..Len(received') |-> LineOf(received'[i])]
          /\ raw_log_path' # raw_log_path => raw_log_path \notin DOMAIN fs'
          /\ \A p \in DOMAIN fs \ {raw_log_path} :
                 p \in DOMAIN fs' /\ fs'[p] = fs[p]]_vars

\* C8: an update_export_meta call (direct, from a record, or from
\* export_stem(meta)) whose MetaBlock computes the current export stem does
\* no flush, close, rename or reopen and leaves the files, the handle,
\* raw_log_path() and the export stem as they were.
C8_Idempotent ==
    [][(/\ lastOp' \in {"feed", "update_export_meta", "export_stem"}
        /\ upd_args' # <<>>
        /\ BuildExportStem(upd_args'[1]) = export_stem) =>
          /\ fsOps' = <<>> /\ fs' = fs /\ raw_buf' = raw_buf
          /\ raw_log' = raw_log /\ raw_log_path' = raw_log_path
          /\ export_stem' = export_stem]_vars

\* update_export_meta was called, with the handle open, with a MetaBlock
\* other than the stream's whose stem is the one the log already has
C8_Witness ==
    /\ lastOp = "update_export_meta" /\ upd_args = <<MetaSameStem>>
    /\ pre_stem = BuildExportStem(MetaSameStem)
    /\ raw_log # NoPath /\ received # <<>>

\* C9: a log opened on a configured concrete file (concrete is that file's
\* stem) keeps that name: raw_log_path() stays the configured file.
C9_ConcreteNeverRenamed ==
    (concrete # NoStem /\ raw_log_path # NoPath) =>
        raw_log_path = FilePath(raw_log_dir, concrete, raw_log_suffix)

\* C10: an open raw-log handle is open on the file raw_log_path() names,
\* and that file exists.
C10_HandleMatchesPath ==
    raw_log # NoPath => (raw_log = raw_log_path /\ raw_log_path \in DOMAIN fs)

\* update_export_meta has reopened the log after a rename that failed
C10_Witness ==
    /\ lastOp \in {"feed", "update_export_meta", "export_stem"}
    /\ "rename_failed" \in Range(fsOps) /\ "open" \in Range(fsOps)
    /\ raw_log # NoPath /\ export_stem # raw_log_path.stem

---------------------------------------------------------------------------
(* Claims about the source threads, checked under SpecThreads. *)

\* C11: at most one source thread is alive per controller at any time.
C11_OneSourceThread == SourceThreads <= 1

---------------------------------------------------------------------------
(* Claims about start, stop and apply_config, checked under Spec. *)

\* the sample file of c is missing, or its serial port cannot be opened
SourceFails(c) ==
    \/ c.sample_file = "missing.txt"
    \/ c.sample_file = "" /\ c.serial_enabled /\ c.serial_port = "BAD"
\* the message of that failure
SourceError(c) ==
    IF c.sample_file = "missing.txt" THEN "Sample file not found"
    ELSE "Serial connection failed"
\* the log directory of c cannot be created
LogDirFails(c) == c.persist_csv /\ MkdirFails(c.persist_path.dir)
\* how many times msg is in the emitted errors errs
Emitted(errs, msg) == Cardinality({i \in 1..Len(errs) : errs[i] = msg})
\* c and d are the same configuration but for the persist_path the
\* controller writes into it
SameConfig(c, d) == c = [d EXCEPT !.persist_path = c.persist_path]

\* C12: a start() whose source cannot be built (sample file missing, serial
\* port cannot be opened) raises nothing, emits that error once, and leaves
\* no source thread recorded and no raw-log handle open.
C12_StartFailure ==
    [][(lastOp' = "start" /\ SourceFails(config) /\ ~LogDirFails(config)) =>
          /\ raised' = ""
          /\ Emitted(errors', SourceError(config)) = 1
          /\ thread' = NoThread
          /\ raw_log' = NoPath]_vars

\* a start() failed after it had opened the raw log
C12_Witness ==
    /\ lastOp = "start" /\ "Sample file not found" \in Range(errors)
    /\ "open" \in Range(fsOps) /\ "close" \in Range(fsOps)
    /\ thread = NoThread /\ raw_log = NoPath /\ raised = ""

\* C13: apply_config(new_config) returns True exactly when new_config was
\* started without error, and then the controller's config is new_config
\* and config_changed carried it; it returns False exactly when starting
\* new_config failed.
C13_ApplyConfigResult ==
    [][lastOp' = "apply_config" =>
          LET failed == SourceFails(applied') \/ LogDirFails(applied')
          IN  /\ (ret' = "True") <=> ~failed
              /\ (ret' = "False") <=> failed
              /\ ret' = "True" =>
                     /\ SameConfig(config', applied')
                     /\ changed' = <<config'>>]_vars

\* C14: when new_config cannot be started and the previous configuration
\* can, apply_config leaves the previous configuration's source running,
\* config the previous configuration, and the triggering error emitted
\* exactly once.
C14_Rollback ==
    [][(/\ lastOp' = "apply_config"
        /\ SourceFails(applied') \/ LogDirFails(applied')
        /\ ~SourceFails(config) /\ ~LogDirFails(config)) =>
          /\ thread' = BuildThread(config).kind
          /\ SameConfig(config', config)
          /\ Emitted(errors', SourceError(applied')) = 1]_vars

\* C15: when neither new_config nor the previous configuration can be
\* started, apply_config returns False, reports the triggering error, and
\* leaves the controller stopped, no handle open, config the previous one.
C15_RollbackFails ==
    [][(/\ lastOp' = "apply_config"
        /\ SourceFails(applied') \/ LogDirFails(applied')
        /\ SourceFails(config) \/ LogDirFails(config)) =>
          /\ ret' = "False" /\ raised' = ""
          /\ Emitted(errors', SourceError(applied')) = 1
          /\ thread' = NoThread /\ raw_log' = NoPath
          /\ SameConfig(config', config)]_vars

C17_StopCloses ==
    [][lastOp' = "stop" =>
          (thread' = NoThread /\ raw_log' = NoPath /\ raw_buf' = <<>>)]_vars

\* C18: a feed_line step in which the Parser takes the line as a new data
\* header resets the bus: snapshot() is empty and generation() is one
\* higher when the step ends, before any record under the new header; the
\* bus never holds a record appended before the last reset.
C18_HeaderResets ==
    [][lastOp' = "feed" =>
          /\ (/\ Strip(cur) # <<>> /\ phase # "expect_meta_values"
              /\ IsHeaderLine(SplitWs(cur)) /\ meta_hdr # <<>>) =>
                 /\ data_hdr' = SplitWs(cur) /\ yielded' = <<>>
                 /\ records' = <<>> /\ generation' = generation + 1
          /\ records' = LastN(sinceReset', Min(MaxLen, Len(sinceReset')))]_vars

\* the looping sample file has started its second pass, and its first
\* header has wiped the records of the first pass
C18_Witness ==
    /\ lastOp = "feed" /\ thread = "file" /\ pos > Len(SampleLines)
    /\ pre_len > 0 /\ records = <<>> /\ generation >= 3

C20_PersistenceNonFatal ==
    [][/\ (/\ lastOp' = "start" /\ ~SourceFails(config) /\ config.persist_csv
           /\ "open_failed" \in Range(fsOps') \/ LogDirFails(config)) =>
              /\ raised' = "" /\ errors' # <<>>
              /\ raw_log' = NoPath
              /\ thread' = BuildThread(config).kind
       /\ (lastOp' = "write" /\ raw_log # NoPath /\ raw_log' = NoPath) =>
              /\ errors' = <<"Raw data logging failed">>
              /\ thread' = thread /\ pc' = "feed"
       /\ (lastOp' = "feed" /\ raw_log = NoPath /\ yielded' # <<>>) =>
              /\ records' # <<>> /\ records'[Len(records')] = yielded'[1]]_vars

---------------------------------------------------------------------------
(* Claims about the export stem and the Parser. *)

\* the stem the claim describes for MetaBlock m: the session timestamp, then
\* "_" and the sanitized battery name (P70), then "_" and the sanitized
\* cradle name (P07), a token that sanitizes to nothing being left out;
\* "_raw" stands in when both are left out
NamedStem(m) ==
    LET battery == SanitizeToken(DictGet(m, "P70"))
        cradle == SanitizeToken(DictGet(m, "P07"))
    IN  SessionStem
        \o (IF battery # <<>> THEN <<"_">> \o battery ELSE <<>>)
        \o (IF cradle # <<>> THEN <<"_">> \o cradle ELSE <<>>)
        \o (IF battery = <<>> /\ cradle = <<>> THEN <<"_", "r", "a", "w">> ELSE <<>>)

\* 20261104_134501_PMNN4809A_WTC3206
StreamStem ==
    SessionStem \o <<"_", "P", "M", "N", "N", "4", "8", "0", "9", "A",
                     "_", "W", "T", "C", "3", "2", "0", "6">>

\* a feed_line that handled a record carrying a non-empty MetaBlock, with
\* persistence enabled and the log configured on a directory path
RecordWithMeta ==
    /\ lastOp' = "feed" /\ yielded' # <<>>
    /\ meta # EmptyDict /\ upd_args' = <<meta>>
    /\ config.persist_csv /\ raw_log_dir # NoDir /\ concrete' = NoStem

\* C21 as stated: after such a record the stem of raw_log_path() is the
\* session timestamp followed by the sanitized battery and cradle tokens.
C21_StemAfterRecord ==
    [][RecordWithMeta =>
          /\ raw_log_path' # NoPath
          /\ raw_log_path'.stem = NamedStem(meta)
          /\ meta = MetaStream => raw_log_path'.stem = StreamStem]_vars

\* C21, amended: after such a record export_stem() is the session timestamp
\* followed by the sanitized battery and cradle tokens, and so is the stem
\* of raw_log_path() unless a rename or a reopen of the log has failed
\* since the log was configured; for the stream's meta the stem holds
\* both WTC3206 and PMNN4809A.
C21_StemAfterRecordUnlessIoFailed ==
    [][RecordWithMeta =>
          /\ export_stem' = NamedStem(meta)
          /\ meta = MetaStream => export_stem' = StreamStem
          /\ ~log_io_failed' =>
                /\ raw_log_path' # NoPath
                /\ raw_log_path'.stem = export_stem'
                /\ raw_log_path'.dir = raw_log_dir']_vars

\* the first record of the sample stream has renamed the open log
C21_Witness ==
    /\ lastOp = "feed" /\ yielded # <<>> /\ upd_args = <<MetaStream>>
    /\ config.persist_csv /\ concrete = NoStem /\ ~log_io_failed
    /\ "rename" \in Range(fsOps) /\ raw_log # NoPath
    /\ raw_log_path.stem = StreamStem

\* a line that is empty or holds whitespace only
IsBlank(line) == \A i \in 1..Len(line) : line[i] \in Whitespace

\* the line the last feed_line was called with
LastFed == fed[Len(fed)]

\* C22: feed_line on an empty or whitespace-only line fires no record
\* callback and no data-header callback and leaves phase, meta_hdr,
\* data_hdr and meta unchanged, in every phase.
C22_BlankIgnored ==
    [][(lastOp' = "feed_line" /\ IsBlank(fed'[Len(fed')])) =>
          /\ events' = <<>> /\ trace' = trace
          /\ phase' = phase /\ meta_hdr' = meta_hdr
          /\ data_hdr' = data_hdr /\ meta' = meta]_vars

\* an empty line was fed in phase expect_meta_values, and now a
\* whitespace-only line in phase expect_data_values
C22_Witness ==
    /\ lastOp = "feed_line"
    /\ fed = <<LMetaHdr, LBlank, LMetaVal, LDataHdr3, LSpaces>>
    /\ phase = "expect_data_values" /\ events = <<>>
    /\ meta = MetaStream /\ data_hdr = <<"P05", "P06", "P40">>

\* the tokens of a line, and whether feed_line takes it as a values line
\* outside phase expect_meta_values: fewer than max(1, n \div 2) of its n
\* tokens are not numbers
TokensOf(line) == SplitWs(line)
IsValuesLine(line) ==
    /\ ~IsBlank(line)
    /\ NonNum(TokensOf(line)) < Max(1, Len(TokensOf(line)) \div 2)

\* the record of 31248 1 13030 under the header P05 P06 P40
Record3 ==
    [P05 |-> IntVal(31248), P06 |-> IntVal(1), P40 |-> ScaledVal(13030, -3)]

\* C23: in phase expect_data_values or data a values line invokes the
\* record callback exactly once, with the current MetaBlock and the record
\* built from data_hdr and the line's tokens, and nothing else; the phase
\* becomes data, and a Parser in phase data leaves it only on a header
\* line.
C23_ValuesLine ==
    [][lastOp' = "feed_line" =>
          LET line == fed'[Len(fed')]
          IN  /\ (phase \in {"expect_data_values", "data"} /\ IsValuesLine(line)) =>
                    /\ events' = <<RecordEvent(meta, BuildRecord(data_hdr, TokensOf(line)))>>
                    /\ (data_hdr = <<"P05", "P06", "P40">> /\ line = LData3) =>
                           events'[1].record = Record3
                    /\ phase' = "data"
                    /\ meta' = meta /\ data_hdr' = data_hdr /\ meta_hdr' = meta_hdr
              /\ (phase = "data" /\ phase' # "data") =>
                    /\ ~IsBlank(line) /\ ~IsValuesLine(line)
                    /\ phase' = "expect_data_values"]_vars

\* two values lines in a row were handled under one data header, the
\* second in phase data
C23_Witness ==
    /\ lastOp = "feed_line"
    /\ fed = <<LMetaHdr, LMetaVal, LDataHdr3, LData3, LOneText4>>
    /\ phase = "data" /\ Len(trace) = 3
    /\ trace[2] = RecordEvent(MetaStream, Record3)
    /\ trace[3].kind = "record" /\ trace[3].meta = MetaStream
    /\ trace[3].record = [P05 |-> IntVal(1), P06 |-> StrVal("x"), P40 |-> ScaledVal(1, 0)]

\* the invocations of the on_data_header callback among evs
HeaderEvents(evs) == SelectSeq(evs, LAMBDA ev : ev.kind = "header")

C25_ControlCharsStripped ==
    [][(/\ lastOp' = "feed_line" /\ fed'[Len(fed')] = LCtl
        /\ phase \in {"expect_data_values", "data"}
        /\ data_hdr = <<"P05", "P06", "P40">>) =>
          /\ Len(events') = 1 /\ events'[1].kind = "record"
          /\ events'[1].record.P05 = IntVal(31248)
          /\ events'[1].record.P40 = ScaledVal(13030, -3)
          /\ data_hdr' = data_hdr /\ phase' = "data"]_vars

\* the tokens of the model's lines for which float(token) succeeds
NumericTexts == {"1", "2", "13030", "31248", "1e3", "-1.5", "9..9(310 digits)"}
\* the number of tokens of a line that are not numeric
TextualCount(line) ==
    Cardinality({i \in 1..Len(TokensOf(line)) : TokensOf(line)[i] \notin NumericTexts})
\* non_numeric_count >= max(1, token_count // 2)
AtThreshold(line) ==
    LET n == Len(TokensOf(line))
    IN  TextualCount(line) >= (IF n \div 2 > 1 THEN n \div 2 ELSE 1)

\* C26 as stated: every non-blank line is handled as a header line exactly
\* when its number of non-numeric tokens is at least
\* max(1, token_count \div 2), and as a values line otherwise.
C26_Classification ==
    [][(lastOp' = "feed_line" /\ ~IsBlank(fed'[Len(fed')])) =>
          /\ handled' = "header" <=> AtThreshold(fed'[Len(fed')])
          /\ handled' = "values" <=> ~AtThreshold(fed'[Len(fed')])]_vars

\* C26, amended: outside phase expect_meta_values a non-blank line is
\* handled as a header line exactly when its number of non-numeric tokens
\* is at least max(1, token_count \div 2), and as a values line otherwise
\* (one textual token among four: values; among two or three: header); in
\* phase expect_meta_values every non-blank line is handled as the values
\* of the meta header, whatever its tokens.
C26_ClassificationOutsideMetaValues ==
    [][(lastOp' = "feed_line" /\ ~IsBlank(fed'[Len(fed')])) =>
          LET line == fed'[Len(fed')]
          IN  /\ phase # "expect_meta_values" =>
                    /\ handled' = "header" <=> AtThreshold(line)
                    /\ handled' = "values" <=> ~AtThreshold(line)
                    /\ line = LOneText4 => handled' = "values"
                    /\ line \in {LOneText2, LOneText3} => handled' = "header"
              /\ phase = "expect_meta_values" =>
                    /\ handled' = "values"
                    /\ meta' = ZipDict(meta_hdr, TokensOf(line))
                    /\ phase' = "find_header"]_vars

\* a three-token line with one textual token became the data header and a
\* four-token line with one textual token was then handled as its values
C26_Witness ==
    /\ lastOp = "feed_line"
    /\ fed = <<LMetaHdr, LMetaVal, LOneText3, LOneText4>>
    /\ handled = "values" /\ phase = "data"
    /\ data_hdr = <<"1", "x", "2">>
    /\ meta = MetaStream

---------------------------------------------------------------------------
(* Claims about decode_status, checked under SpecStatus. *)

\* the values that can be coerced to an integer (ints, finite floats,
\* strings of digits), and the integer the claim expects for each: the int
\* itself, the float truncated towards zero, the number the string spells
Coercible(value) ==
    \/ value.kind = "int"
    \/ value.kind = "float" /\ value # ScaledVal(1, 999)
    \/ value.kind = "str" /\ value.text \in {"5"}
CoercedInt(value) ==
    CASE value = ScaledVal(37, -1) -> 3
      [] value = ScaledVal(-37, -1) -> -3
      [] value = ScaledVal(5, 0) -> 5
      [] value = ScaledVal(1, 3) -> 1000
      [] value = StrVal("5") -> 5
      [] value.kind = "int" -> value.num
      [] OTHER -> 0

\* C27: decode_status never raises; for a value that cannot be coerced to
\* an integer it returns raw_value None with empty badges and details, and
\* for every value that can, raw_value is the coerced integer.
C27_NeverRaises ==
    lastOp = "decode_status" =>
        /\ detail.exc = ""
        /\ ~Coercible(word) =>
              (detail.none /\ detail.badges = <<>> /\ detail.details = <<>>)
        /\ Coercible(word) =>
              (~detail.none /\ detail.raw_value = CoercedInt(word))

\* bit i of a non-negative status word, and the code of the field of
\* width bits that starts at bit offset
BitAt(w, i) == (w \div 2^i) % 2
CodeOf(w, offset, width) ==
    BitAt(w, offset) + 2 * BitAt(w, offset + 1)
    + (IF width = 3 THEN 4 * BitAt(w, offset + 2) ELSE 0)

\* the entry the claim describes for a field: the text of the code in the
\* field's enum, or Unbekannt (<code>)
FieldEntry(label, mapping, code) ==
    IF code \in DOMAIN mapping THEN label \o ": " \o mapping[code]
    ELSE label \o ": Unbekannt (" \o ToString(code) \o ")"

\* C28: for a non-negative integer status word the first six details are
\* the entries of the fixed fields at (0,3), (3,3), (6,2), (8,2), (11,3),
\* (19,3), a code outside the field's enum rendered as Unbekannt (<code>);
\* badges are those entries without the internal resistance; the line of
\* a peripheral bit (14-18) or of an end-of-charge bit (22-25) is in
\* details exactly when the bit is set; nothing is raised.
C28_FieldsAndFlags ==
    (lastOp = "decode_status" /\ word.kind = "int" /\ word.num >= 0) =>
        LET w == word.num
            d == detail.details
        IN  /\ detail.exc = "" /\ ~detail.none /\ detail.raw_value = w
            /\ Len(d) >= 6
            /\ d[1] = FieldEntry("Batteriespannung", BATTERY_VOLTAGE, CodeOf(w, 0, 3))
            /\ d[2] = FieldEntry("Batterietemperatur", BATTERY_TEMPERATURE, CodeOf(w, 3, 3))
            /\ d[3] = FieldEntry("Innenwiderstand", BATTERY_RESISTANCE, CodeOf(w, 6, 2))
            /\ d[4] = FieldEntry("Versorgung", CHARGER_SUPPLY, CodeOf(w, 8, 2))
            /\ d[5] = FieldEntry("Ladestrom", CHARGER_CURRENT, CodeOf(w, 11, 3))
            /\ d[6] = FieldEntry("Fehler", FAULT_CODES, CodeOf(w, 19, 3))
            /\ detail.badges = <<d[1], d[2], d[4], d[5], d[6]>>
            /\ \A b \in 14..18 :
                   ("Peripherie: " \o PERIPHERAL_BITS[b]) \in Range(d) <=> BitAt(w, b) = 1
            /\ \A b \in 22..25 :
                   ("NiCd EoC: " \o NICKEL_EOC_BITS[b]) \in Range(d) <=> BitAt(w, b) = 1

\* a word with voltage code 7, which is in no enum, the input bit (14) and
\* the delta-V bit (22)
C28_Witness ==
    /\ lastOp = "decode_status" /\ word = IntVal(7 + 2^14 + 2^22)
    /\ detail.details[1] = "Batteriespannung: Unbekannt (7)"
    /\ detail.details[7] = "Peripherie: Eingang aktiviert"
    /\ detail.details[8] = "NiCd EoC: ΔV Drop erreicht"
    /\ Len(detail.badges) = 5 /\ detail.badges[5] = "Fehler: Keine Fehler"

---------------------------------------------------------------------------
(* Claims about the source threads' construction and end. *)

\* starting c constructs a SerialReader, and the construction raises (the
\* port cannot be opened, or pyserial is absent)
SerialFails(c) ==
    c.sample_file = "" /\ c.serial_enabled /\ c.serial_port = "BAD"

\* C29: a start() or an apply_config(c) that reaches a SerialReader whose
\* construction raises reports "Serial connection failed" on
\* error_occurred, exactly once, lets no exception escape, and leaves no
\* thread recorded for that configuration: after start() none at all,
\* after apply_config none or the source of the configuration rolled back
\* to.
C29_SerialFailureReported ==
    [][LET c == IF lastOp' = "start" THEN config ELSE applied'
       IN  (/\ lastOp' \in {"start", "apply_config"}
            /\ SerialFails(c) /\ ~LogDirFails(c)) =>
              /\ Emitted(errors', "Serial connection failed") = 1
              /\ raised' = ""
              /\ lastOp' = "start" => thread' = NoThread
              /\ thread' # NoThread =>
                    (~SerialFails(config') /\ SameConfig(config', config))]_vars

\* C30: stopping is prompt.  After stop() the thread invokes its callback
\* at most once more; a stopped thread leaves run(); and the controller's
\* stop(), once it waits in the join, returns with no thread recorded.
C30_StopIsPrompt ==
    /\ [](run.after <= 1)
    /\ (run.stopped ~> run.at \in Ended)
    /\ (pc = "join" ~> (pc = "idle" /\ lastOp = "stop" /\ thread = NoThread))

---------------------------------------------------------------------------
(* Claims about the Parser's phases, checked under SpecParser. *)

\* the invocations of the record callback among evs
RecordEvents(evs) == SelectSeq(evs, LAMBDA ev : ev.kind = "record")

\* C31: a line feed_line hands to _handle_header sets meta_hdr and moves to
\* expect_meta_values when meta_hdr is empty; otherwise it sets data_hdr,
\* whether data_hdr is empty or not, and moves to expect_data_values.  It
\* invokes no record callback and leaves meta as it is.
C31_HeaderOrder ==
    [][(lastOp' = "feed_line" /\ handled' = "header") =>
          LET tokens == TokensOf(fed'[Len(fed')])
          IN  /\ meta_hdr = <<>> =>
                    /\ meta_hdr' = tokens /\ phase' = "expect_meta_values"
                    /\ data_hdr' = data_hdr
              /\ meta_hdr # <<>> =>
                    /\ data_hdr' = tokens /\ phase' = "expect_data_values"
                    /\ meta_hdr' = meta_hdr
              /\ RecordEvents(events') = <<>>
              /\ meta' = meta]_vars

\* a third header line has replaced the data header P05 P06 P40
C31_Witness ==
    /\ lastOp = "feed_line" /\ handled = "header"
    /\ fed = <<LMetaHdr, LMetaVal, LDataHdr3, LData3, LOneText2>>
    /\ meta_hdr = <<"P07", "P70">> /\ data_hdr = <<"-1.5", "x">>
    /\ phase = "expect_data_values" /\ meta = MetaStream

\* C32: in phase expect_meta_values a non-blank line, whatever its tokens,
\* makes meta the positional zip of meta_hdr with the line's tokens,
\* invokes no callback, leaves the headers and returns to find_header;
\* under P04 P07 P70 the line CC_CV WTC3206 PMNN4809A gives P04=CC_CV,
\* P07=WTC3206, P70=PMNN4809A.
C32_MetaValues ==
    [][(lastOp' = "feed_line" /\ phase = "expect_meta_values"
        /\ ~IsBlank(fed'[Len(fed')])) =>
          LET line == fed'[Len(fed')]
          IN  /\ meta' = ZipDict(meta_hdr, TokensOf(line))
              /\ events' = <<>>
              /\ phase' = "find_header"
              /\ meta_hdr' = meta_hdr /\ data_hdr' = data_hdr
              /\ (meta_hdr = <<"P04", "P07", "P70">> /\ line = LMetaVal3) =>
                    meta' = [P04 |-> "CC_CV", P07 |-> "WTC3206",
                             P70 |-> "PMNN4809A"]]_vars

\* the textual line CC_CV WTC3206 PMNN4809A was taken as the meta values
C32_Witness ==
    /\ lastOp = "feed_line" /\ fed = <<LMetaHdr3, LBlank, LMetaVal3>>
    /\ handled = "values" /\ phase = "find_header" /\ events = <<>>
    /\ meta = [P04 |-> "CC_CV", P07 |-> "WTC3206", P70 |-> "PMNN4809A"]

\* C33: no exception escapes feed_line, whatever the line.  A values line
\* handled in phase expect_data_values or data yields one record with the
\* first min(len(data_hdr), len(tokens)) header keys, a token that is no
\* number passing through as its string; every other line invokes no
\* record callback.
C33_NoExceptionEscapes ==
    [][lastOp' = "feed_line" =>
          LET tokens == TokensOf(fed'[Len(fed')])
              n == Min(Len(data_hdr), Len(tokens))
          IN  /\ raised' = ""
              /\ (handled' = "values" /\ phase \in {"expect_data_values", "data"}) =>
                    /\ Len(events') = 1 /\ events'[1].kind = "record"
                    /\ DOMAIN events'[1].record = {data_hdr[i] : i \in 1..n}
                    /\ \A i \in 1..n :
                          (~IsNumber(tokens[i])
                           /\ \A j \in (i+1)..n : data_hdr[j] # data_hdr[i]) =>
                              events'[1].record[data_hdr[i]] = StrVal(tokens[i])
              /\ ~(handled' = "values" /\ phase \in {"expect_data_values", "data"}) =>
                    RecordEvents(events') = <<>>]_vars

---------------------------------------------------------------------------
(* Claims about FileTail, checked under SpecRun. *)

\* C34: a FileTail invokes its callback with the lines of the file in
\* order, one call for each, without the trailing newline; having reached
\* the end of the file it opens the file again when loop is true and ends
\* when loop is false; and once run() has found _running cleared it does
\* not invoke the callback again.
C34_FileTailLines ==
    [][(lastOp' = "run" /\ run.kind = "file") =>
          /\ run.at = "callback" =>
                /\ cur' = SampleLines[run.fh + 1]
                /\ run'.fh = run.fh + 1
          /\ run.at # "callback" =>
                (run'.fh = run.fh \/ (run.at = "while" /\ run'.fh = 0))
          /\ run'.at = "callback" => (run.at = "test" /\ run.fh < Len(SampleLines))
          /\ (run.at = "for" /\ run.fh = Len(SampleLines)) =>
                run'.at = (IF run.loop THEN "while" ELSE "done")
          /\ (run.at = "while" /\ run.running) => (run'.at = "for" /\ run'.fh = 0)
          /\ run.cleared => (run'.cleared /\ run'.at # "callback")
          /\ run'.cleared => run'.at # "callback"]_vars

\* a FileTail with loop false has ended at the end of the file without a
\* stop(), its last callback having been for the last line
C34_Witness ==
    /\ run.kind = "file" /\ ~run.loop /\ run.at = "done" /\ ~run.stopped
    /\ run.fh = Len(SampleLines) /\ cur = LData2

\* a looping FileTail is in its second pass over the file
C34_WitnessLoop ==
    /\ run.kind = "file" /\ run.loop /\ run.at = "callback" /\ run.fh = 0
    /\ cur = LData2

---------------------------------------------------------------------------
(* Claims about the DataBus under concurrent callers, checked under        *)
(* SpecLock.                                                                *)

\* the thread that took the step
Actor == CHOOSE t \in Threads : callers'[t] # callers[t]

\* thread t has replaced meta in an append and not yet inserted the record
MidAppend(t) ==
    /\ callers[t] # <<>> /\ Top(St, t).op = "append"
    /\ AtStatement(St, t) = "add_record"

\* C35: whenever the lock is free, meta is the meta passed to the append
\* that stored the most recently stored record; a thread between its
\* append's replacement of meta and its insertion of the record holds the
\* lock, and every step that changes records, meta or generation, and
\* every read of them, is taken by the thread that holds the lock, so that
\* a read finds the meta of the most recently stored record.
C35_AtomicAppend ==
    /\ [](lock = Free => bus_meta = stored_meta)
    /\ [](\A t \in Threads : MidAppend(t) => lock = t)
    /\ [][(lastOp' \in {"set_meta", "add_record", "clear", "bump",
                        "read_records", "read_meta", "read_generation"}) =>
             /\ lock = Actor /\ lock' = lock
             /\ \A u \in Threads \ {Actor} : ~MidAppend(u)
             /\ lastOp' \in {"read_records", "read_meta"} =>
                   bus_meta = stored_meta]_vars

\* both threads were appending at once; the lock is free and the bus holds
\* both records, with the meta of the second
C35_Witness ==
    /\ lock = Free /\ Len(records) = 2 /\ bus_meta = stored_meta
    /\ \A t \in Threads : callers[t] # <<>> /\ Top(St, t).op = "append"
    /\ callers["source"][1].m # callers["owner"][1].m

\* thread t is inside a listener's callback
InListener(t) == Len(callers[t]) = 2

\* thread t can take its next step
CanStep(t) == callers[t] # <<>> /\ (AtStatement(St, t) = "acquire" => lock = Free)

\* C36: the listeners are invoked by a thread that does not hold the lock;
\* a thread holds the lock only inside the locked statements of its
\* innermost call, so a thread inside a listener's callback holds it only
\* while the listener's own call of the bus is in its locked statements,
\* and another thread's append waits for no longer; a call of the bus made
\* from inside a listener never waits for a lock its own thread holds, and
\* whenever a call is under way some thread can take a step.
C36_ListenersOutsideLock ==
    /\ [][lastOp' = "notify" => (lock # Actor /\ lock' # Actor)]_vars
    /\ [](\A t \in Threads :
             /\ lock = t =>
                   /\ callers[t] # <<>>
                   /\ AtStatement(St, t) \notin {"acquire", "notify", "returned"}
             /\ (callers[t] # <<>> /\ AtStatement(St, t) = "acquire") => lock # t)
    /\ []((\E t \in Threads : callers[t] # <<>>) => \E t \in Threads : CanStep(t))

\* a listener invoked by the source thread's append has called reset(),
\* which holds the lock, while the owner's append waits for it
C36_Witness ==
    /\ InListener("source") /\ callers["source"][1].op = "append"
    /\ Top(St, "source").op = "reset" /\ lock = "source"
    /\ callers["owner"] # <<>> /\ Top(St, "owner").op = "append"
    /\ AtStatement(St, "owner") = "acquire"

\* a listener's append has returned while the owner's append was under way:
\* the bus holds the listener's record
C36_WitnessAppend ==
    /\ Len(callers["source"]) = 1 /\ AtStatement(St, "source") = "returned"
    /\ lastOp = "returned" /\ Len(records) >= 2 /\ lock = "owner"

---------------------------------------------------------------------------
(* Claims about the raw-log handle under two threads, checked under        *)
(* SpecHandle.                                                              *)

\* thread t is between its first and its last use of the handle
Using(t) ==
    rawio.at[t] \in {"write", "newline", "flush", "x_close", "x_none",
                     "u_flush", "u_close", "u_none", "u_rename", "u_open",
                     "c_close", "c_none"}

\* C37: the raw-log handle is never used by two threads at once: the write
\* in the line callback, the close, rename and reopen in update_export_meta
\* and the close in stop() never overlap, and no statement uses a handle
\* that another thread has closed or set to None.
C37_HandleExclusive ==
    /\ ~(Using("source") /\ Using("owner"))
    /\ ~rawio.misuse

---------------------------------------------------------------------------
(* Claims about the Parser's phases under reset(), checked under           *)
(* SpecReset.                                                               *)

Phases == {"find_header", "expect_meta_values", "expect_data_values", "data"}

PhaseConsistent ==
    /\ phase \in Phases
    /\ phase = "expect_meta_values" => meta_hdr # <<>>
    /\ phase \in {"expect_data_values", "data"} => data_hdr # <<>>

\* C38: phase is one of find_header, expect_meta_values, expect_data_values
\* and data; it is expect_meta_values only with a non-empty meta_hdr and
\* expect_data_values or data only with a non-empty data_hdr.  Hence a
\* record callback is invoked only when a data header has been seen, and a
\* values line arriving in find_header invokes no callback and changes
\* nothing of the Parser.
C38_PhaseInvariant ==
    /\ []PhaseConsistent
    /\ [][lastOp' = "feed_line" =>
            /\ RecordEvents(events') # <<>> => data_hdr # <<>>
            /\ (phase = "find_header" /\ handled' = "values") =>
                  /\ events' = <<>> /\ raised' = ""
                  /\ phase' = phase /\ meta_hdr' = meta_hdr
                  /\ data_hdr' = data_hdr /\ meta' = meta]_vars

\* after a record and a reset(), a values line arrived in find_header and
\* was dropped
C38_Witness ==
    /\ lastOp = "feed_line" /\ handled = "values" /\ nops = 1
    /\ fed = <<LMetaHdr, LMetaVal, LDataHdr3, LData3, LData3>>
    /\ Len(trace) = 1 /\ events = <<>>
    /\ phase = "find_header" /\ meta_hdr = <<>> /\ data_hdr = <<>>

---------------------------------------------------------------------------
(* Claims about the Parser across restarts of the source, checked under    *)
(* Spec.                                                                    *)

\* an earlier source thread delivered lines: nlines counts the lines of all
\* threads, pos those of the thread started last
AfterRestart == nlines > pos

\* the parts of C39 about one Parser: meta_hdr is assigned at most once and
\* meta is set at most once, a header handled when meta_hdr is set becomes
\* the data header, and start, stop and apply_config leave the Parser as it
\* is
ParserKeepsMeta ==
    /\ meta_hdr # <<>> => meta_hdr' = meta_hdr
    /\ meta' # meta => (meta = EmptyDict /\ phase = "expect_meta_values")
    /\ (lastOp' = "feed" /\ handled' = "header" /\ meta_hdr # <<>>) =>
          (data_hdr' = SplitWs(cur) /\ meta_hdr' = meta_hdr)
    /\ lastOp' \in {"start", "stop", "apply_config"} =>
          (phase' = phase /\ meta_hdr' = meta_hdr /\ data_hdr' = data_hdr
           /\ meta' = meta)
    /\ \A i \in 1..Len(events') :
          events'[i].kind = "record" => events'[i].meta = meta

\* C39: on a Parser on which reset() is not called meta_hdr is assigned at
\* most once and the MetaBlock is set at most once, every later header is
\* taken as a data header, and start() and apply_config() do not reset the
\* Parser; so after a restart the MetaBlock is the one the first stream
\* left and the records carry it.
C39_MetaOfFirstStream ==
    [][ParserKeepsMeta /\ (AfterRestart => meta' = meta)]_vars

---------------------------------------------------------------------------
(* Claims about raw_log_path(), checked under Spec. *)

\* C40: whenever raw_log_path() is not None it names a file the controller
\* has opened (every file of fs was created by an open of the controller),
\* and while the handle is open that file holds the lines logged so far;
\* also after stop(), after a write failure closed the log, and after
\* update_export_meta was called with no handle open.
C40_PathNamesLog ==
    raw_log_path # NoPath =>
        /\ raw_log_path \in DOMAIN fs
        /\ (raw_log # NoPath /\ raw_buf = <<>>) =>
               Splitlines(fs[raw_log_path]) =
                   Splitlines(openBase) \o
                   [i \in 1..Len(received) |-> LineOf(received[i])]

=============================================================================
